---------------------------- MODULE Spec2Model ----------------------------
(***************************************************************************)
(* A model of the novel analyser: the chunking algorithm of                *)
(* src/utils/textProcessing.ts and the auto-analysis controller of         *)
(* src/App.tsx.                                                            *)
(*                                                                         *)
(* Texts are sequences of one-character strings over a three-letter        *)
(* alphabet: the newline, and the two letters of the chapter keyword       *)
(* "xu zhang" (prologue) of CHAPTER_REGEX, written "X" and "Z" here.       *)
(* Over that alphabet the regular expression reduces to                    *)
(* (?:^|\n)\s*XZ[^\n]* : the other keywords cannot occur.  Offsets are     *)
(* 0-based as in the source; text[i] of the source is text[i + 1] here.    *)
(***************************************************************************)
EXTENDS Integers, Sequences, FiniteSets, TLC

\* ------------------------------------------------------------------------
\* Bounds of the model
\* ------------------------------------------------------------------------

\* Longest input text handed to processFileContent.
MaxLen == 7

\* Largest targetChunkSize handed to processFileContent.
MaxTarget == 6

\* Most relations merged into a graph since it was empty.
MaxRelations == 3

\* How far below zero a targetChunkSize handed to processFileContent goes.
MaxDeficit == 1

\* Passes of the loop of splitByLength followed one by one.
MaxPasses == 3

\* ------------------------------------------------------------------------
\* Strings
\* ------------------------------------------------------------------------

NL == "\n"

Alphabet == {NL, "X", "Z"}

\* The characters String.prototype.trim and the regex class \s remove.
WhiteSpace == {NL, " ", "\t", "\r"}

IsSpace(c) == c \in WhiteSpace

SetMin(S) == CHOOSE m \in S : \A n \in S : m <= n

SetMax(S) == CHOOSE m \in S : \A n \in S : m >= n

MinOf(a, b) == IF a <= b THEN a ELSE b

MaxOf(a, b) == IF a >= b THEN a ELSE b

\* The offset String.prototype.slice makes of an argument: a negative one
\* counts from the end, and the result is clamped to 0..length.
SliceOffset(text, k) ==
    IF k < 0 THEN MaxOf(Len(text) + k, 0) ELSE MinOf(k, Len(text))

\* text.slice(from, to)
Slice(text, from, to) ==
    SubSeq(text, SliceOffset(text, from) + 1, SliceOffset(text, to))

\* String.prototype.trim
Trim(s) ==
    LET keep == {i \in 1..Len(s) : ~IsSpace(s[i])}
    IN  IF keep = {} THEN <<>> ELSE SubSeq(s, SetMin(keep), SetMax(keep))

\* text.lastIndexOf(c, from): the largest index <= from holding c, or -1;
\* a negative from searches offset 0 only.
LastIndexOf(text, c, from) ==
    LET hits == {i \in 0..MinOf(MaxOf(from, 0), Len(text) - 1) :
                    text[i + 1] = c}
    IN  IF hits = {} THEN -1 ELSE SetMax(hits)

\* prefix.startsWith(p)
StartsWith(s, p) == Len(s) >= Len(p) /\ SubSeq(s, 1, Len(p)) = p

SegmentStr == <<"S", "e", "g", "m", "e", "n", "t">>

StartStr == <<"S", "t", "a", "r", "t">>

EndStr == <<"E", "n", "d">>

\* The template text " (Part k)" after the base title.
PartSuffix(k) == <<"(", "P", "a", "r", "t", " ", ToString(k), ")">>

\* ------------------------------------------------------------------------
\* CHAPTER_REGEX
\* ------------------------------------------------------------------------

\* The first offset at or after p that holds no whitespace (Len(text) if none).
SkipSpace(text, p) ==
    LET stop == {i \in p..(Len(text) - 1) : ~IsSpace(text[i + 1])}
    IN  IF stop = {} THEN Len(text) ELSE SetMin(stop)

\* The first offset at or after p that holds a newline (Len(text) if none).
LineEnd(text, p) ==
    LET stop == {i \in p..(Len(text) - 1) : text[i + 1] = NL}
    IN  IF stop = {} THEN Len(text) ELSE SetMin(stop)

\* The end offset of the match of CHAPTER_REGEX that starts at offset p, or
\* -1: (?:^|\n) anchors at offset 0 or on a newline, \s* runs over the
\* whitespace (the keyword starts with a letter, so only the whole run can
\* be followed by it), then the keyword, then the rest of the line.
MatchEnd(text, p) ==
    LET anchored == p < Len(text) /\ (p = 0 \/ text[p + 1] = NL)
        k == SkipSpace(text, p)
    IN  IF /\ anchored
           /\ k + 2 <= Len(text)
           /\ text[k + 1] = "X"
           /\ text[k + 2] = "Z"
        THEN LineEnd(text, k + 2)
        ELSE -1

\* [...content.matchAll(CHAPTER_REGEX)] searched from offset pos: the
\* leftmost match, then the matches after its end.
RECURSIVE MatchAllFrom(_, _)
MatchAllFrom(text, pos) ==
    LET starts == {p \in pos..(Len(text) - 1) : MatchEnd(text, p) # -1}
    IN  IF starts = {} THEN <<>>
        ELSE LET p == SetMin(starts)
                 e == MatchEnd(text, p)
             IN  <<[index |-> p, text |-> Slice(text, p, e)]>>
                     \o MatchAllFrom(text, e)

MatchAll(text) == MatchAllFrom(text, 0)

\* m[0].replace(/^\n/, '').trim()
HeaderTitle(m) ==
    Trim(IF Len(m) > 0 /\ m[1] = NL THEN Tail(m) ELSE m)

\* ------------------------------------------------------------------------
\* splitByLength
\* ------------------------------------------------------------------------

NoAnalysis == [present |-> FALSE]

\* lastNewLine > cursor + (targetChunkSize * 0.8), in integers: the double
\* nearest 0.8 lies above 0.8, so the product never rounds below the exact
\* value and the comparison with an integer is the exact one.
FarEnough(lastNewLine, cursor, targetChunkSize) ==
    5 * (lastNewLine - cursor) > 4 * targetChunkSize

\* PieceEnd with indexOf in place of lastIndexOf: the piece runs on to the
\* first newline after the budget.
PieceEndForward(text, targetChunkSize, cursor) ==
    LET end == MinOf(cursor + targetChunkSize, Len(text))
        nextNewLine == LineEnd(text, end)
    IN  IF end < Len(text) /\ FarEnough(nextNewLine, cursor, targetChunkSize)
        THEN nextNewLine
        ELSE end

\* The end of the piece that starts at cursor.
PieceEnd(text, targetChunkSize, cursor) ==
    LET end == MinOf(cursor + targetChunkSize, Len(text))
        lastNewLine == LastIndexOf(text, NL, end)
    IN  IF end < Len(text) /\ FarEnough(lastNewLine, cursor, targetChunkSize)
        THEN lastNewLine
        ELSE end

\* The title of the piece number localIndex (0-based).
PieceTitle(text, targetChunkSize, startIdIndex, baseTitlePrefix, localIndex) ==
    IF StartsWith(baseTitlePrefix, SegmentStr)
    THEN Trim(SegmentStr \o <<" ", ToString(startIdIndex + localIndex + 1)>>)
    ELSE Trim(baseTitlePrefix \o <<" ">>
              \o (IF Len(text) > targetChunkSize
                  THEN PartSuffix(localIndex + 1) ELSE <<>>))

RECURSIVE SplitLoop(_, _, _, _, _, _, _)
SplitLoop(text, targetChunkSize, absoluteStartOffset, startIdIndex, baseTitlePrefix, cursor, localIndex) ==
    IF cursor < Len(text)
    THEN LET end == PieceEnd(text, targetChunkSize, cursor)
         IN  <<[id |-> 0,
                title |-> PieceTitle(text, targetChunkSize, startIdIndex,
                                     baseTitlePrefix, localIndex),
                content |-> Trim(Slice(text, cursor, end)),
                startIndex |-> absoluteStartOffset + cursor,
                endIndex |-> absoluteStartOffset + end,
                analysis |-> NoAnalysis]>>
             \o SplitLoop(text, targetChunkSize, absoluteStartOffset,
                          startIdIndex, baseTitlePrefix, end, localIndex + 1)
    ELSE <<>>

splitByLength(text, targetChunkSize, absoluteStartOffset, startIdIndex, baseTitlePrefix) ==
    IF Len(text) = 0 THEN <<>>
    ELSE SplitLoop(text, targetChunkSize, absoluteStartOffset, startIdIndex,
                   baseTitlePrefix, 0, 0)

\* ------------------------------------------------------------------------
\* processFileContent
\* ------------------------------------------------------------------------

\* simpleChunks.map((c, i) => ({...c, id: i}))
Renumber(chunks, firstId) ==
    [i \in 1..Len(chunks) |-> [chunks[i] EXCEPT !.id = firstId + i - 1]]

\* The split points: a "Start" point when no header sits at offset 0, the
\* headers, and the "End" sentinel.
SplitIndices(content, matches) ==
    LET headers == [i \in 1..Len(matches) |->
                       [index |-> matches[i].index,
                        title |-> HeaderTitle(matches[i].text)]]
    IN  (IF Len(headers) = 0 \/ headers[1].index > 0
         THEN <<[index |-> 0, title |-> StartStr]>> ELSE <<>>)
        \o headers
        \o <<[index |-> Len(content), title |-> EndStr]>>

\* addChunks that advances chunkIdCounter once per call instead of once per
\* sub-chunk.
addChunksOneId(content, targetChunkSize, st, start, end, title) ==
    LET text == Slice(content, start, end)
        subChunks == splitByLength(text, targetChunkSize, start,
                                   st.chunkIdCounter, title)
    IN  IF Trim(text) = <<>> THEN st
        ELSE [st EXCEPT
                !.finalChunks = @ \o Renumber(subChunks, st.chunkIdCounter),
                !.chunkIdCounter = @ + 1]

\* addChunks(start, end, title) on the loop state st (finalChunks and
\* chunkIdCounter): a section of whitespace is skipped.
addChunks(content, targetChunkSize, st, start, end, title) ==
    LET text == Slice(content, start, end)
        subChunks == splitByLength(text, targetChunkSize, start,
                                   st.chunkIdCounter, title)
    IN  IF Trim(text) = <<>> THEN st
        ELSE [st EXCEPT
                !.finalChunks = @ \o Renumber(subChunks, st.chunkIdCounter),
                !.chunkIdCounter = @ + Len(subChunks)]

\* GroupStep whose oversized-section case forgets to flush the pending group.
GroupStepNoFlush(content, targetChunkSize, splitIndices, st, i) ==
    LET currentHeader == splitIndices[i]
        nextHeader == splitIndices[i + 1]
        currentSectionLength == nextHeader.index - currentHeader.index
        pendingLength == currentHeader.index - st.accumulatedStart
    IN  IF currentSectionLength > targetChunkSize
        THEN LET huge == addChunks(content, targetChunkSize, st,
                                   currentHeader.index, nextHeader.index,
                                   currentHeader.title)
             IN  [huge EXCEPT !.accumulatedStart = nextHeader.index,
                              !.accumulatedTitle = nextHeader.title]
        ELSE IF pendingLength + currentSectionLength > targetChunkSize
        THEN LET flushed ==
                     IF pendingLength > 0
                     THEN addChunks(content, targetChunkSize, st,
                                    st.accumulatedStart, currentHeader.index,
                                    st.accumulatedTitle)
                     ELSE st
             IN  [flushed EXCEPT !.accumulatedStart = currentHeader.index,
                                 !.accumulatedTitle = currentHeader.title]
        ELSE st

\* GroupStep that goes on accumulating from the start of an oversized
\* section after it has emitted it.
GroupStepNoReset(content, targetChunkSize, splitIndices, st, i) ==
    LET currentHeader == splitIndices[i]
        nextHeader == splitIndices[i + 1]
        currentSectionLength == nextHeader.index - currentHeader.index
        pendingLength == currentHeader.index - st.accumulatedStart
    IN  IF currentSectionLength > targetChunkSize
        THEN LET flushed ==
                     IF pendingLength > 0
                        /\ st.accumulatedStart # currentHeader.index
                     THEN addChunks(content, targetChunkSize, st,
                                    st.accumulatedStart, currentHeader.index,
                                    st.accumulatedTitle)
                     ELSE st
                 huge == addChunks(content, targetChunkSize, flushed,
                                   currentHeader.index, nextHeader.index,
                                   currentHeader.title)
             IN  [huge EXCEPT !.accumulatedStart = currentHeader.index,
                              !.accumulatedTitle = currentHeader.title]
        ELSE IF pendingLength + currentSectionLength > targetChunkSize
        THEN LET flushed ==
                     IF pendingLength > 0
                     THEN addChunks(content, targetChunkSize, st,
                                    st.accumulatedStart, currentHeader.index,
                                    st.accumulatedTitle)
                     ELSE st
             IN  [flushed EXCEPT !.accumulatedStart = currentHeader.index,
                                 !.accumulatedTitle = currentHeader.title]
        ELSE st

\* GroupStep that closes the pending group before every section.
GroupStepEager(content, targetChunkSize, splitIndices, st, i) ==
    LET currentHeader == splitIndices[i]
        nextHeader == splitIndices[i + 1]
        currentSectionLength == nextHeader.index - currentHeader.index
        pendingLength == currentHeader.index - st.accumulatedStart
    IN  IF currentSectionLength > targetChunkSize
        THEN LET flushed ==
                     IF pendingLength > 0
                        /\ st.accumulatedStart # currentHeader.index
                     THEN addChunks(content, targetChunkSize, st,
                                    st.accumulatedStart, currentHeader.index,
                                    st.accumulatedTitle)
                     ELSE st
                 huge == addChunks(content, targetChunkSize, flushed,
                                   currentHeader.index, nextHeader.index,
                                   currentHeader.title)
             IN  [huge EXCEPT !.accumulatedStart = nextHeader.index,
                              !.accumulatedTitle = nextHeader.title]
        ELSE IF pendingLength > 0
        THEN LET flushed ==
                     IF pendingLength > 0
                     THEN addChunks(content, targetChunkSize, st,
                                    st.accumulatedStart, currentHeader.index,
                                    st.accumulatedTitle)
                     ELSE st
             IN  [flushed EXCEPT !.accumulatedStart = currentHeader.index,
                                 !.accumulatedTitle = currentHeader.title]
        ELSE st

\* One pass of the grouping loop for the section that starts at split
\* point i (1-based here).
GroupStep(content, targetChunkSize, splitIndices, st, i) ==
    LET currentHeader == splitIndices[i]
        nextHeader == splitIndices[i + 1]
        currentSectionLength == nextHeader.index - currentHeader.index
        pendingLength == currentHeader.index - st.accumulatedStart
    IN  IF currentSectionLength > targetChunkSize
        THEN LET flushed ==
                     IF pendingLength > 0
                        /\ st.accumulatedStart # currentHeader.index
                     THEN addChunks(content, targetChunkSize, st,
                                    st.accumulatedStart, currentHeader.index,
                                    st.accumulatedTitle)
                     ELSE st
                 huge == addChunks(content, targetChunkSize, flushed,
                                   currentHeader.index, nextHeader.index,
                                   currentHeader.title)
             IN  [huge EXCEPT !.accumulatedStart = nextHeader.index,
                              !.accumulatedTitle = nextHeader.title]
        ELSE IF pendingLength + currentSectionLength > targetChunkSize
        THEN LET flushed ==
                     IF pendingLength > 0
                     THEN addChunks(content, targetChunkSize, st,
                                    st.accumulatedStart, currentHeader.index,
                                    st.accumulatedTitle)
                     ELSE st
             IN  [flushed EXCEPT !.accumulatedStart = currentHeader.index,
                                 !.accumulatedTitle = currentHeader.title]
        ELSE st

RECURSIVE GroupLoop(_, _, _, _, _)
GroupLoop(content, targetChunkSize, splitIndices, st, i) ==
    IF i < Len(splitIndices)
    THEN GroupLoop(content, targetChunkSize, splitIndices,
                   GroupStep(content, targetChunkSize, splitIndices, st, i),
                   i + 1)
    ELSE st

\* processFileContent that falls back only when it finds no header at all.
processFileContentNoHeader(content, targetChunkSize) ==
    LET totalLength == Len(content)
        matches == MatchAll(content)
        splitIndices == SplitIndices(content, matches)
        st0 == [finalChunks |-> <<>>,
                chunkIdCounter |-> 0,
                accumulatedStart |-> splitIndices[1].index,
                accumulatedTitle |-> splitIndices[1].title]
        st1 == GroupLoop(content, targetChunkSize, splitIndices, st0, 1)
        st2 == IF st1.accumulatedStart < totalLength
               THEN addChunks(content, targetChunkSize, st1,
                              st1.accumulatedStart, totalLength,
                              st1.accumulatedTitle)
               ELSE st1
    IN  IF Len(matches) < 1 /\ totalLength > targetChunkSize
        THEN Renumber(splitByLength(content, targetChunkSize, 0, 0,
                                    SegmentStr), 0)
        ELSE st2.finalChunks

processFileContent(content, targetChunkSize) ==
    LET totalLength == Len(content)
        matches == MatchAll(content)
        splitIndices == SplitIndices(content, matches)
        st0 == [finalChunks |-> <<>>,
                chunkIdCounter |-> 0,
                accumulatedStart |-> splitIndices[1].index,
                accumulatedTitle |-> splitIndices[1].title]
        st1 == GroupLoop(content, targetChunkSize, splitIndices, st0, 1)
        st2 == IF st1.accumulatedStart < totalLength
               THEN addChunks(content, targetChunkSize, st1,
                              st1.accumulatedStart, totalLength,
                              st1.accumulatedTitle)
               ELSE st1
    IN  IF Len(matches) < 2 /\ totalLength > targetChunkSize
        THEN Renumber(splitByLength(content, targetChunkSize, 0, 0,
                                    SegmentStr), 0)
        ELSE st2.finalChunks

\* ------------------------------------------------------------------------
\* Bounds and inputs of the application model
\* ------------------------------------------------------------------------

\* Auto-analysis loops that may be alive at once.
MaxRuns == 2

\* Calls to analyzeChunkText issued in one behaviour.
MaxCalls == 3

\* Novels imported in one behaviour.
MaxNovels == 2

\* Manual analysis calls in flight at once.
MaxManual == 1

\* Calls to generateChapterOutlines issued in one behaviour.
MaxOutlines == 2

\* A novel without chapter headers and a novel with two of them.
Headerless == <<"Z", "X", "X", "Z", "Z", "Z">>

Chaptered == <<"X", "Z", "X", NL, "X", "Z", "Z">>

\* The files the reader uploads.
Docs == {Headerless}

\* The chunk sizes the settings slider offers, scaled to the texts above.
Sizes == {3, 6}

\* settings.targetChunkSize of the initial state, on the same scale.
DefaultTargetChunkSize == 3

RunIds == 1..MaxRuns

ManualIds == 1..MaxManual

\* ------------------------------------------------------------------------
\* State
\* ------------------------------------------------------------------------

VARIABLES
    viewState,          \* 'upload' | 'library' | 'reader'
    appState,           \* the GlobalState of App
    isAutoAnalyzing,    \* the React state of that name
    autoAnalysisRef,    \* autoAnalysisRef.current
    runs,               \* the startAutoAnalysis calls that have not returned
    manualCalls,        \* the handleAnalyze calls awaiting analyzeChunkText
    store,              \* the IndexedDB stores, one entry per novel id
    callsIssued,        \* analyzeChunkText calls made so far
    segText,            \* the text handed to processFileContent
    segTarget,          \* the targetChunkSize handed to it
    segDone,            \* whether that call has returned
    segChunks,          \* what it returned, or the pieces a splitByLength
                        \* call that has not returned has pushed so far
    segCursor,          \* the cursor of that splitByLength call
    mergeGraph,         \* the graph the last merge returned
    mergeArg,           \* the graph object handed to that merge, as it reads now
    mergeBatch,         \* the relations handed to that merge
    mergeLog,           \* every relation merged since the empty graph
    retryPc,            \* where a retryWithBackoff call stands
    retries,            \* its retries parameter
    delay,              \* its delay parameter, in ms
    attempts,           \* the fn() calls it made
    waits,              \* the timeouts it slept through, in ms
    lastError,          \* the message of the error it caught last
    analysisPc,         \* whether the analyzeChunkText call around it has ended
    outlineCall,        \* the outline handler awaiting generateChapterOutlines
    outlinesIssued      \* generateChapterOutlines calls made so far

appVars ==
    <<viewState, appState, isAutoAnalyzing, autoAnalysisRef, runs,
      manualCalls, store, callsIssued>>

segVars == <<segText, segTarget, segDone, segChunks, segCursor>>

graphVars == <<mergeGraph, mergeArg, mergeBatch, mergeLog>>

retryVars == <<retryPc, retries, delay, attempts, waits, lastError>>

\* The variables of the functions that are exercised on their own.
serviceVars == <<analysisPc>>

panelVars == <<outlineCall, outlinesIssued>>

unitVars == <<segVars, graphVars, retryVars, serviceVars, panelVars>>

vars == <<appVars, unitVars>>

EmptyGraph == [nodes |-> <<>>, links |-> <<>>]

\* A startAutoAnalysis call that is not running.
IdleRun ==
    [pc |-> "idle", novelId |-> 0, chunksToAnalyze |-> <<>>,
     startIndex |-> 0, i |-> 0, runningSummary |-> <<>>,
     stopRequested |-> FALSE, resegmented |-> FALSE]

\* A handleAnalyze call that is not awaiting the service.
IdleManual ==
    [pending |-> FALSE, chunkId |-> 0, content |-> <<>>,
     previousSummary |-> <<>>]

\* An outline handler that is not awaiting the service.
IdleOutline ==
    [pending |-> FALSE, chunkId |-> 0, content |-> <<>>,
     analysis |-> [present |-> FALSE]]

\* ------------------------------------------------------------------------
\* The analysis service, seen from the application
\* ------------------------------------------------------------------------

\* The summary the service writes for a text: a text about that text.
Summarize(content) == <<"#">> \o content

\* The relationship lists a reply may carry.
RelationBatches ==
    { <<>>,
      <<[source |-> <<"A">>, target |-> <<"B">>, relation |-> <<"r">>]>> }

\* The outline lists generateChapterOutlines may resolve to for a text.
OutlineLists(content) ==
    { <<>>,
      <<[title |-> <<"c">>, summary |-> Summarize(content)]>> }

\* What analyzeChunkText may resolve to for a text.
Results(content) ==
    { [present |-> TRUE,
       summary |-> Summarize(content),
       relationships |-> rs] : rs \in RelationBatches }

\* ------------------------------------------------------------------------
\* mergeRelationshipsIntoGraph
\* ------------------------------------------------------------------------

HasNode(nodes, id) == \E k \in 1..Len(nodes) : nodes[k].id = id

\* A node that is found is left as it is.
TouchNodeOnce(nodes, id) ==
    IF HasNode(nodes, id) THEN nodes
    ELSE Append(nodes, [id |-> id, group |-> 1, value |-> 1])

\* nodes.find(...) then push or value++
TouchNode(nodes, id) ==
    IF HasNode(nodes, id)
    THEN LET k == SetMin({j \in 1..Len(nodes) : nodes[j].id = id})
         IN  [nodes EXCEPT ![k].value = @ + 1]
    ELSE Append(nodes, [id |-> id, group |-> 1, value |-> 1])

\* A find that matches a link in the direction of the relation only.
LinkExistsDirected(links, sourceId, targetId) ==
    \E k \in 1..Len(links) :
        links[k].source = sourceId /\ links[k].target = targetId

\* A find that matches nothing.
LinkExistsNever(links, sourceId, targetId) == FALSE

LinkExists(links, sourceId, targetId) ==
    \E k \in 1..Len(links) :
        \/ links[k].source = sourceId /\ links[k].target = targetId
        \/ links[k].source = targetId /\ links[k].target = sourceId

\* A body that returns early only when both ends are empty.
MergeRelationHalfSkip(graph, rel) ==
    LET sourceId == Trim(rel.source)
        targetId == Trim(rel.target)
    IN  IF sourceId = <<>> /\ targetId = <<>> THEN graph
        ELSE [nodes |-> TouchNode(TouchNode(graph.nodes, sourceId), targetId),
              links |-> IF LinkExists(graph.links, sourceId, targetId)
                        THEN graph.links
                        ELSE Append(graph.links,
                                    [source |-> sourceId,
                                     target |-> targetId,
                                     label |-> rel.relation])]

\* A body that gives a link that is found the label of the relation.
MergeRelationRelabels(graph, rel) ==
    LET sourceId == Trim(rel.source)
        targetId == Trim(rel.target)
    IN  IF sourceId = <<>> \/ targetId = <<>> THEN graph
        ELSE [nodes |-> TouchNode(TouchNode(graph.nodes, sourceId), targetId),
              links |-> IF LinkExists(graph.links, sourceId, targetId)
                        THEN [k \in 1..Len(graph.links) |->
                                 IF {graph.links[k].source,
                                     graph.links[k].target}
                                        = {sourceId, targetId}
                                 THEN [graph.links[k] EXCEPT
                                          !.label = rel.relation]
                                 ELSE graph.links[k]]
                        ELSE Append(graph.links,
                                    [source |-> sourceId,
                                     target |-> targetId,
                                     label |-> rel.relation])]

\* The body of newRelations.forEach for one relation.
MergeRelation(graph, rel) ==
    LET sourceId == Trim(rel.source)
        targetId == Trim(rel.target)
    IN  IF sourceId = <<>> \/ targetId = <<>> THEN graph
        ELSE [nodes |-> TouchNode(TouchNode(graph.nodes, sourceId), targetId),
              links |-> IF LinkExists(graph.links, sourceId, targetId)
                        THEN graph.links
                        ELSE Append(graph.links,
                                    [source |-> sourceId,
                                     target |-> targetId,
                                     label |-> rel.relation])]

RECURSIVE mergeRelationshipsIntoGraph(_, _)
mergeRelationshipsIntoGraph(currentGraph, newRelations) ==
    IF newRelations = <<>> THEN currentGraph
    ELSE mergeRelationshipsIntoGraph(
             MergeRelation(currentGraph, Head(newRelations)),
             Tail(newRelations))

\* The object that was passed as currentGraph, read after the call.  The
\* call copies the two arrays, not the node objects: value++ writes to the
\* node object that the passed array holds too.  Nodes are only pushed
\* behind the copied ones, and the passed link array is never written.
currentGraphAfter(currentGraph, newRelations) ==
    [nodes |-> SubSeq(mergeRelationshipsIntoGraph(currentGraph,
                                                  newRelations).nodes,
                      1, Len(currentGraph.nodes)),
     links |-> currentGraph.links]

\* ------------------------------------------------------------------------
\* The store
\* ------------------------------------------------------------------------
\* IndexedDB runs transactions with overlapping scopes in the order they
\* were created, and every read the application makes is a later
\* transaction: a write is modelled as taking effect when it is issued.

AnalyzedCount(chunks) ==
    Cardinality({k \in 1..Len(chunks) : chunks[k].analysis.present})

\* Whether the two object stores hold a novel under this id.
Stored(st, id) == id \in 1..Len(st) /\ st[id].present

updateNovelChunks(st, id, chunks, analyzedCount, globalGraph) ==
    IF Stored(st, id)
    THEN [st EXCEPT ![id].data.chunks = chunks,
                    ![id].data.globalGraph = globalGraph,
                    ![id].metadata.analyzedChunkCount = analyzedCount,
                    ![id].metadata.chunkCount = Len(chunks)]
    ELSE st

updateNovelSettings(st, id, settings) ==
    IF Stored(st, id) THEN [st EXCEPT ![id].metadata.settings = settings]
    ELSE st

updateNovelProgress(st, id, currentChunkIndex) ==
    IF Stored(st, id)
    THEN [st EXCEPT ![id].metadata.currentChunkIndex = currentChunkIndex]
    ELSE st

\* The entry saveNewNovel adds.
NewNovel(content, chunks, settings) ==
    [present |-> TRUE,
     metadata |-> [chunkCount |-> Len(chunks),
                   analyzedChunkCount |-> 0,
                   currentChunkIndex |-> 0,
                   settings |-> settings],
     data |-> [content |-> content,
               chunks |-> chunks,
               globalGraph |-> EmptyGraph]]

\* What deleteNovel leaves under an id: ids are never reused.
DeletedNovel ==
    [present |-> FALSE,
     metadata |-> [chunkCount |-> 0,
                   analyzedChunkCount |-> 0,
                   currentChunkIndex |-> 0,
                   settings |-> [targetChunkSize |-> 0]],
     data |-> [content |-> <<>>, chunks |-> <<>>, globalGraph |-> EmptyGraph]]

deleteNovel(st, id) ==
    IF Stored(st, id) THEN [st EXCEPT ![id] = DeletedNovel] ELSE st

\* ------------------------------------------------------------------------
\* handleAnalysisComplete
\* ------------------------------------------------------------------------

\* prevState.chunks.map(c => c.id === chunkId ? { ...c, analysis } : c)
AttachAnalysis(chunks, chunkId, analysis) ==
    [k \in 1..Len(chunks) |->
        IF chunks[k].id = chunkId
        THEN [chunks[k] EXCEPT !.analysis = analysis]
        ELSE chunks[k]]

\* The state the updater returns.
AnalysisCompleteState(prevState, chunkId, analysis) ==
    LET updatedGraph ==
            IF Len(analysis.relationships) > 0
            THEN mergeRelationshipsIntoGraph(prevState.globalGraph,
                                             analysis.relationships)
            ELSE prevState.globalGraph
    IN  [prevState EXCEPT
            !.chunks = AttachAnalysis(prevState.chunks, chunkId, analysis),
            !.globalGraph = updatedGraph]

\* The updater's write with the count and the graph of prevState.
AnalysisCompleteStoreStale(st, prevState, chunkId, analysis) ==
    LET next == AnalysisCompleteState(prevState, chunkId, analysis)
    IN  updateNovelChunks(st, prevState.currentNovelId, next.chunks,
                          AnalyzedCount(prevState.chunks),
                          prevState.globalGraph)

\* The store after the updater's updateNovelChunks call.
AnalysisCompleteStore(st, prevState, chunkId, analysis) ==
    LET next == AnalysisCompleteState(prevState, chunkId, analysis)
    IN  updateNovelChunks(st, prevState.currentNovelId, next.chunks,
                          AnalyzedCount(next.chunks), next.globalGraph)

\* ------------------------------------------------------------------------
\* startAutoAnalysis and stopAutoAnalysis
\* ------------------------------------------------------------------------

Unanalyzed(chunks) == {k \in 1..Len(chunks) : ~chunks[k].analysis.present}

\* A scan that never moves startIndex off the first chunk.
ScanStartIndexZero(chunks) == 0

\* The scan for the resume point: the (0-based) startIndex it leaves.
ScanStartIndex(chunks) ==
    IF Unanalyzed(chunks) = {} THEN 0 ELSE SetMin(Unanalyzed(chunks)) - 1

\* The runningSummary the same scan leaves.
ScanRunningSummary(chunks) ==
    LET seen == IF Unanalyzed(chunks) = {} THEN Len(chunks)
                ELSE SetMin(Unanalyzed(chunks)) - 1
    IN  IF seen = 0 THEN <<>> ELSE chunks[seen].analysis.summary

\* The chunk a run is working on.
RunChunk(run) == run.chunksToAnalyze[run.i + 1]

Active(run) == run.pc # "idle"

\* The locals with runningSummary left as it was before the call.
AfterSuccessStale(run, result) ==
    [run EXCEPT !.chunksToAnalyze[run.i + 1].analysis = result,
                !.pc = "pausing"]

\* The run's locals after a call resolved and its result was handed on.
AfterSuccess(run, result) ==
    [run EXCEPT !.chunksToAnalyze[run.i + 1].analysis = result,
                !.runningSummary = result.summary,
                !.pc = "pausing"]

\* The user asked for the analysis to stop: remembered for every live run.
MarkStopped(rs) ==
    [r \in RunIds |->
        IF Active(rs[r]) THEN [rs[r] EXCEPT !.stopRequested = TRUE]
        ELSE rs[r]]

\* The chunk list was resegmented: remembered for every call in flight.
MarkResegmented(rs) ==
    [r \in RunIds |->
        IF rs[r].pc = "calling" THEN [rs[r] EXCEPT !.resegmented = TRUE]
        ELSE rs[r]]

\* The click on the start button, up to the first await of the loop.
startAutoAnalysis ==
    /\ viewState = "reader"
    /\ ~isAutoAnalyzing
    /\ \E r \in RunIds :
        /\ ~Active(runs[r])
        /\ \A q \in RunIds : q < r => Active(runs[q])
        /\ LET chunksToAnalyze == appState.chunks
               startIndex == ScanStartIndex(chunksToAnalyze)
           IN  IF startIndex < Len(chunksToAnalyze)
               THEN /\ callsIssued < MaxCalls
                    /\ runs' = [runs EXCEPT ![r] =
                          [pc |-> "calling",
                           novelId |-> appState.currentNovelId,
                           chunksToAnalyze |-> chunksToAnalyze,
                           startIndex |-> startIndex,
                           i |-> startIndex,
                           runningSummary |->
                               ScanRunningSummary(chunksToAnalyze),
                           stopRequested |-> FALSE,
                           resegmented |-> FALSE]]
                    /\ callsIssued' = callsIssued + 1
                    /\ isAutoAnalyzing' = TRUE
                    /\ autoAnalysisRef' = TRUE
               ELSE \* no chunk: the flag is set and cleared again
                    /\ autoAnalysisRef
                    /\ autoAnalysisRef' = FALSE
                    /\ UNCHANGED <<runs, callsIssued, isAutoAnalyzing>>
    /\ UNCHANGED <<viewState, appState, manualCalls, store, unitVars>>

\* analyzeChunkText resolved: handleAnalysisComplete, then the locals.
CompleteCall(r) ==
    /\ runs[r].pc = "calling"
    /\ \E result \in Results(RunChunk(runs[r]).content) :
        /\ appState' = AnalysisCompleteState(appState, RunChunk(runs[r]).id,
                                             result)
        /\ store' = AnalysisCompleteStore(store, appState,
                                          RunChunk(runs[r]).id, result)
        /\ runs' = [runs EXCEPT ![r] = AfterSuccess(@, result)]
    /\ UNCHANGED <<viewState, isAutoAnalyzing, autoAnalysisRef, manualCalls,
                   callsIssued, unitVars>>

\* A catch block that logs the error and lets the loop go on.
FailCallSkips(r) ==
    /\ runs[r].pc = "calling"
    /\ IF runs[r].i + 1 < Len(runs[r].chunksToAnalyze) /\ autoAnalysisRef
       THEN /\ callsIssued < MaxCalls
            /\ runs' = [runs EXCEPT ![r].i = @ + 1]
            /\ callsIssued' = callsIssued + 1
            /\ UNCHANGED <<isAutoAnalyzing, autoAnalysisRef>>
       ELSE /\ runs' = [runs EXCEPT ![r] = IdleRun]
            /\ isAutoAnalyzing' = FALSE
            /\ autoAnalysisRef' = FALSE
            /\ UNCHANGED callsIssued
    /\ UNCHANGED <<viewState, appState, manualCalls, store, unitVars>>

\* analyzeChunkText rejected: the catch block, the break, and the two
\* assignments after the loop.
FailCall(r) ==
    /\ runs[r].pc = "calling"
    /\ runs' = [runs EXCEPT ![r] = IdleRun]
    /\ isAutoAnalyzing' = FALSE
    /\ autoAnalysisRef' = FALSE
    /\ UNCHANGED <<viewState, appState, manualCalls, store, callsIssued,
                   unitVars>>

\* The 500 ms timer fired: i++, the loop test, the flag test, and either
\* the next call or the two assignments after the loop.
PauseEnds(r) ==
    /\ runs[r].pc = "pausing"
    /\ IF runs[r].i + 1 < Len(runs[r].chunksToAnalyze) /\ autoAnalysisRef
       THEN /\ callsIssued < MaxCalls
            /\ runs' = [runs EXCEPT ![r].i = @ + 1, ![r].pc = "calling"]
            /\ callsIssued' = callsIssued + 1
            /\ UNCHANGED <<isAutoAnalyzing, autoAnalysisRef>>
       ELSE /\ runs' = [runs EXCEPT ![r] = IdleRun]
            /\ isAutoAnalyzing' = FALSE
            /\ autoAnalysisRef' = FALSE
            /\ UNCHANGED callsIssued
    /\ UNCHANGED <<viewState, appState, manualCalls, store, unitVars>>

\* The click on the stop button.
stopAutoAnalysis ==
    /\ viewState = "reader"
    /\ isAutoAnalyzing
    /\ autoAnalysisRef' = FALSE
    /\ isAutoAnalyzing' = FALSE
    /\ runs' = MarkStopped(runs)
    /\ UNCHANGED <<viewState, appState, manualCalls, store, callsIssued,
                   unitVars>>

\* ------------------------------------------------------------------------
\* Importing, opening, deleting and leaving a novel
\* ------------------------------------------------------------------------

\* handleFileLoaded once processFileContent has returned.
FileLoaded(content, chunks) ==
    /\ store' = Append(store, NewNovel(content, chunks, appState.settings))
    /\ appState' = [appState EXCEPT
           !.currentNovelId = Len(store) + 1,
           !.fullContent = content,
           !.chunks = chunks,
           !.currentChunkIndex = 0,
           !.globalGraph = EmptyGraph]
    /\ viewState' = "reader"
    /\ UNCHANGED <<isAutoAnalyzing, autoAnalysisRef, runs, manualCalls,
                   callsIssued, unitVars>>

handleFileLoaded(content) ==
    /\ viewState = "upload"
    /\ Len(store) < MaxNovels
    /\ FileLoaded(content,
                  processFileContent(content,
                                     appState.settings.targetChunkSize))

handleOpenNovel(id) ==
    /\ viewState = "library"
    /\ Stored(store, id)
    /\ appState' = [currentNovelId |-> id,
                    fullContent |-> store[id].data.content,
                    chunks |-> store[id].data.chunks,
                    currentChunkIndex |-> store[id].metadata.currentChunkIndex,
                    settings |-> store[id].metadata.settings,
                    globalGraph |-> store[id].data.globalGraph]
    /\ viewState' = "reader"
    /\ UNCHANGED <<isAutoAnalyzing, autoAnalysisRef, runs, manualCalls, store,
                   callsIssued, unitVars>>

handleDeleteNovel(id) ==
    /\ viewState = "library"
    /\ Stored(store, id)
    /\ store' = deleteNovel(store, id)
    /\ UNCHANGED <<viewState, appState, isAutoAnalyzing, autoAnalysisRef,
                   runs, manualCalls, callsIssued, unitVars>>

handleBackToLibrary ==
    /\ viewState = "reader"
    /\ autoAnalysisRef' = FALSE
    /\ isAutoAnalyzing' = FALSE
    /\ runs' = MarkStopped(runs)
    /\ viewState' = "library"
    /\ UNCHANGED <<appState, manualCalls, store, callsIssued, unitVars>>

onImportNew ==
    /\ viewState = "library"
    /\ viewState' = "upload"
    /\ UNCHANGED <<appState, isAutoAnalyzing, autoAnalysisRef, runs,
                   manualCalls, store, callsIssued, unitVars>>

onGoToLibrary ==
    /\ viewState = "upload"
    /\ viewState' = "library"
    /\ UNCHANGED <<appState, isAutoAnalyzing, autoAnalysisRef, runs,
                   manualCalls, store, callsIssued, unitVars>>

\* ------------------------------------------------------------------------
\* updateSettings
\* ------------------------------------------------------------------------

\* A map that renumbers the chunks and leaves their offsets as they are.
ShiftedIdsOnly(newChunksRaw, startingId, startOffset) ==
    [idx \in 1..Len(newChunksRaw) |->
        [newChunksRaw[idx] EXCEPT !.id = startingId + idx - 1]]

\* newChunksRaw.map(...): ids and offsets moved behind the preserved chunks.
Shifted(newChunksRaw, startingId, startOffset) ==
    [idx \in 1..Len(newChunksRaw) |->
        [newChunksRaw[idx] EXCEPT !.id = startingId + idx - 1,
                                  !.startIndex = @ + startOffset,
                                  !.endIndex = @ + startOffset]]

FirstUnanalyzedIndex(chunks) == SetMin(Unanalyzed(chunks)) - 1

\* A slice that keeps nothing: the whole text is cut again.
PreservedChunksNone(chunks) == <<>>

PreservedChunks(chunks) == SubSeq(chunks, 1, FirstUnanalyzedIndex(chunks))

StartOffset(preservedChunks) ==
    IF Len(preservedChunks) > 0
    THEN preservedChunks[Len(preservedChunks)].endIndex
    ELSE 0

StartingId(preservedChunks) ==
    IF Len(preservedChunks) > 0
    THEN preservedChunks[Len(preservedChunks)].id + 1
    ELSE 0

\* The state after the tail from the first unanalyzed chunk was cut again.
Resegmented(state, preservedChunks, startOffset, targetChunkSize) ==
    [state EXCEPT
        !.chunks = preservedChunks \o
            Shifted(processFileContent(Slice(state.fullContent, startOffset,
                                             Len(state.fullContent)),
                                       targetChunkSize),
                    StartingId(preservedChunks), startOffset),
        !.currentChunkIndex =
            IF @ >= Len(preservedChunks) THEN Len(preservedChunks) ELSE @]

\* The condition of the resegmentation branch.
SizeChanged(targetChunkSize) ==
    /\ appState.fullContent # <<>>
    /\ appState.settings.targetChunkSize # targetChunkSize

ChunksChanged(targetChunkSize) ==
    SizeChanged(targetChunkSize) /\ Unanalyzed(appState.chunks) # {}

\* updatedState
UpdatedState(newSettings) ==
    IF ChunksChanged(newSettings.targetChunkSize)
    THEN Resegmented([appState EXCEPT !.settings = newSettings],
                     PreservedChunks(appState.chunks),
                     StartOffset(PreservedChunks(appState.chunks)),
                     newSettings.targetChunkSize)
    ELSE [appState EXCEPT !.settings = newSettings]

\* setAppState(updatedState) and the two writes.
SettingsSaved(newSettings, sizeChanged, chunksChanged, updatedState) ==
    /\ appState' = updatedState
    /\ store' =
         IF appState.currentNovelId # 0
         THEN updateNovelSettings(
                  IF chunksChanged
                  THEN updateNovelChunks(store, appState.currentNovelId,
                           updatedState.chunks,
                           AnalyzedCount(updatedState.chunks),
                           updatedState.globalGraph)
                  ELSE store,
                  appState.currentNovelId, newSettings)
         ELSE store
    /\ IF sizeChanged
       THEN /\ autoAnalysisRef' = FALSE
            /\ isAutoAnalyzing' = FALSE
            /\ runs' = IF chunksChanged
                       THEN MarkResegmented(MarkStopped(runs))
                       ELSE MarkStopped(runs)
       ELSE UNCHANGED <<autoAnalysisRef, isAutoAnalyzing, runs>>
    /\ UNCHANGED <<viewState, manualCalls, callsIssued, unitVars>>

\* Saving the settings dialog with another chunk size.
updateSettings(targetChunkSize) ==
    /\ viewState = "reader"
    /\ appState.settings.targetChunkSize # targetChunkSize
    /\ SettingsSaved([appState.settings EXCEPT
                          !.targetChunkSize = targetChunkSize],
                     SizeChanged(targetChunkSize),
                     ChunksChanged(targetChunkSize),
                     UpdatedState([appState.settings EXCEPT
                                      !.targetChunkSize = targetChunkSize]))

\* ------------------------------------------------------------------------
\* Reading
\* ------------------------------------------------------------------------

selectChunk(index) ==
    /\ viewState = "reader"
    /\ index \in 0..(Len(appState.chunks) - 1)
    /\ index # appState.currentChunkIndex
    /\ appState' = [appState EXCEPT !.currentChunkIndex = index]
    /\ store' = IF appState.currentNovelId # 0
                THEN updateNovelProgress(store, appState.currentNovelId, index)
                ELSE store
    /\ UNCHANGED <<viewState, isAutoAnalyzing, autoAnalysisRef, runs,
                   manualCalls, callsIssued, unitVars>>

\* ------------------------------------------------------------------------
\* The analysis panel
\* ------------------------------------------------------------------------

HasCurrentChunk(state) ==
    state.currentChunkIndex + 1 \in 1..Len(state.chunks)

CurrentChunk(state) == state.chunks[state.currentChunkIndex + 1]

getPreviousContext(state) ==
    IF /\ state.currentChunkIndex > 0
       /\ state.currentChunkIndex \in 1..Len(state.chunks)
       /\ state.chunks[state.currentChunkIndex].analysis.present
    THEN state.chunks[state.currentChunkIndex].analysis.summary
    ELSE <<>>

canAnalyze(state) ==
    \/ state.currentChunkIndex = 0
    \/ /\ state.currentChunkIndex \in 1..Len(state.chunks)
       /\ state.chunks[state.currentChunkIndex].analysis.present

\* A button that calls handleAnalyze is on screen: the analyze button of an
\* unlocked raw chunk while no auto-analysis is shown as running, or the
\* regenerate button of an analyzed chunk.
AnalyzeButtonShown ==
    /\ viewState = "reader"
    /\ HasCurrentChunk(appState)
    /\ \/ CurrentChunk(appState).analysis.present
       \/ ~isAutoAnalyzing /\ canAnalyze(appState)

\* handleAnalyze up to its await.
handleAnalyze ==
    /\ AnalyzeButtonShown
    /\ ~(~canAnalyze(appState) /\ ~CurrentChunk(appState).analysis.present)
    /\ callsIssued < MaxCalls
    /\ \E m \in ManualIds :
        /\ ~manualCalls[m].pending
        /\ \A q \in ManualIds : q < m => manualCalls[q].pending
        /\ manualCalls' = [manualCalls EXCEPT ![m] =
               [pending |-> TRUE,
                chunkId |-> CurrentChunk(appState).id,
                content |-> CurrentChunk(appState).content,
                previousSummary |-> getPreviousContext(appState)]]
    /\ callsIssued' = callsIssued + 1
    /\ UNCHANGED <<viewState, appState, isAutoAnalyzing, autoAnalysisRef,
                   runs, store, unitVars>>

\* Its analyzeChunkText resolved.
CompleteManual(m) ==
    /\ manualCalls[m].pending
    /\ \E result \in Results(manualCalls[m].content) :
        /\ appState' = AnalysisCompleteState(appState, manualCalls[m].chunkId,
                                             result)
        /\ store' = AnalysisCompleteStore(store, appState,
                                          manualCalls[m].chunkId, result)
    /\ manualCalls' = [manualCalls EXCEPT ![m] = IdleManual]
    /\ UNCHANGED <<viewState, isAutoAnalyzing, autoAnalysisRef, runs,
                   callsIssued, unitVars>>

\* Its analyzeChunkText rejected.
FailManual(m) ==
    /\ manualCalls[m].pending
    /\ manualCalls' = [manualCalls EXCEPT ![m] = IdleManual]
    /\ UNCHANGED <<viewState, appState, isAutoAnalyzing, autoAnalysisRef,
                   runs, store, callsIssued, unitVars>>

\* data.chapterOutlines is set.
HasOutlines(analysis) == "chapterOutlines" \in DOMAIN analysis

\* { ...chunk.analysis, chapterOutlines: outlines }
WithOutlines(analysis, outlines) ==
    [f \in DOMAIN analysis \cup {"chapterOutlines"} |->
        IF f = "chapterOutlines" THEN outlines ELSE analysis[f]]

\* The insights of the current chunk are on screen with an outline button
\* that is not disabled.
OutlineButtonShown ==
    /\ viewState = "reader"
    /\ HasCurrentChunk(appState)
    /\ CurrentChunk(appState).analysis.present
    /\ ~outlineCall.pending

\* The body both outline handlers share, up to its await: chunk is the
\* prop of the render the click happened in.
AwaitOutlines ==
    /\ outlinesIssued < MaxOutlines
    /\ outlineCall' = [pending |-> TRUE,
                       chunkId |-> CurrentChunk(appState).id,
                       content |-> CurrentChunk(appState).content,
                       analysis |-> CurrentChunk(appState).analysis]
    /\ outlinesIssued' = outlinesIssued + 1
    /\ UNCHANGED <<appVars, segVars, graphVars, retryVars, serviceVars>>

\* handleGenerateOutlines up to its await.
handleGenerateOutlines ==
    /\ OutlineButtonShown
    /\ ~HasOutlines(CurrentChunk(appState).analysis)
    /\ AwaitOutlines

\* handleRegenerateOutlines up to its await.
handleRegenerateOutlines ==
    /\ OutlineButtonShown
    /\ HasOutlines(CurrentChunk(appState).analysis)
    /\ AwaitOutlines

\* generateChapterOutlines resolved: onAnalysisComplete is handed the
\* analysis of the click with the outlines added.
CompleteOutlines ==
    /\ outlineCall.pending
    /\ \E outlines \in OutlineLists(outlineCall.content) :
        LET updatedAnalysis == WithOutlines(outlineCall.analysis, outlines)
        IN  /\ appState' = AnalysisCompleteState(appState,
                               outlineCall.chunkId, updatedAnalysis)
            /\ store' = AnalysisCompleteStore(store, appState,
                               outlineCall.chunkId, updatedAnalysis)
    /\ outlineCall' = IdleOutline
    /\ UNCHANGED <<viewState, isAutoAnalyzing, autoAnalysisRef, runs,
                   manualCalls, callsIssued, outlinesIssued, segVars,
                   graphVars, retryVars, serviceVars>>

\* generateChapterOutlines rejected: the handler alerts.
FailOutlines ==
    /\ outlineCall.pending
    /\ outlineCall' = IdleOutline
    /\ UNCHANGED <<appVars, outlinesIssued, segVars, graphVars, retryVars,
                   serviceVars>>

\* ------------------------------------------------------------------------
\* The application: a fresh installation, then any use of it
\* ------------------------------------------------------------------------

DefaultSettings == [targetChunkSize |-> DefaultTargetChunkSize]

\* The panel is not outlining.
PanelIdle ==
    /\ outlineCall = IdleOutline
    /\ outlinesIssued = 0

AppInit ==
    /\ viewState = "upload"
    /\ appState = [currentNovelId |-> 0,
                   fullContent |-> <<>>,
                   chunks |-> <<>>,
                   currentChunkIndex |-> 0,
                   settings |-> DefaultSettings,
                   globalGraph |-> EmptyGraph]
    /\ isAutoAnalyzing = FALSE
    /\ autoAnalysisRef = FALSE
    /\ runs = [r \in RunIds |-> IdleRun]
    /\ manualCalls = [m \in ManualIds |-> IdleManual]
    /\ store = <<>>
    /\ callsIssued = 0
    /\ PanelIdle

SegIdle ==
    /\ segText = <<>>
    /\ segTarget = 1
    /\ segDone = TRUE
    /\ segChunks = <<>>
    /\ segCursor = 0

\* No merge has been made.
GraphIdle ==
    /\ mergeGraph = EmptyGraph
    /\ mergeArg = EmptyGraph
    /\ mergeBatch = <<>>
    /\ mergeLog = <<>>

\* No retryWithBackoff call has been made.
RetryIdle ==
    /\ retryPc = "idle"
    /\ retries = 0
    /\ delay = 0
    /\ attempts = 0
    /\ waits = <<>>
    /\ lastError = ""
    /\ analysisPc = "pending"

UnitIdle == SegIdle /\ GraphIdle /\ RetryIdle

Init == AppInit /\ UnitIdle

Next ==
    \/ \E content \in Docs : handleFileLoaded(content)
    \/ \E id \in 1..MaxNovels : handleOpenNovel(id)
    \/ \E id \in 1..MaxNovels : handleDeleteNovel(id)
    \/ handleBackToLibrary
    \/ onImportNew
    \/ onGoToLibrary
    \/ \E targetChunkSize \in Sizes : updateSettings(targetChunkSize)
    \/ \E index \in 0..MaxLen : selectChunk(index)
    \/ startAutoAnalysis
    \/ stopAutoAnalysis
    \/ \E r \in RunIds : CompleteCall(r)
    \/ \E r \in RunIds : FailCall(r)
    \/ \E r \in RunIds : PauseEnds(r)
    \/ handleAnalyze
    \/ \E m \in ManualIds : CompleteManual(m)
    \/ \E m \in ManualIds : FailManual(m)
    \/ handleGenerateOutlines
    \/ handleRegenerateOutlines
    \/ CompleteOutlines
    \/ FailOutlines

Spec == Init /\ [][Next]_vars

\* ------------------------------------------------------------------------
\* One novel: imported, analysed, resegmented, left and opened again
\* ------------------------------------------------------------------------

AutoNext ==
    \/ \E content \in Docs : handleFileLoaded(content)
    \/ \E id \in 1..MaxNovels : handleOpenNovel(id)
    \/ handleBackToLibrary
    \/ \E targetChunkSize \in Sizes : updateSettings(targetChunkSize)
    \/ startAutoAnalysis
    \/ stopAutoAnalysis
    \/ \E r \in RunIds : CompleteCall(r)
    \/ \E r \in RunIds : FailCall(r)
    \/ \E r \in RunIds : PauseEnds(r)

AutoSpec == Init /\ [][AutoNext]_vars

\* ------------------------------------------------------------------------
\* One novel read in the panel: analysed by hand, then outlined
\* ------------------------------------------------------------------------

OutlineNext ==
    \/ \E content \in Docs : handleFileLoaded(content)
    \/ \E index \in 0..MaxLen : selectChunk(index)
    \/ handleAnalyze
    \/ \E m \in ManualIds : CompleteManual(m)
    \/ \E m \in ManualIds : FailManual(m)
    \/ handleGenerateOutlines
    \/ handleRegenerateOutlines
    \/ CompleteOutlines
    \/ FailOutlines

OutlineSpec == Init /\ [][OutlineNext]_vars

\* ------------------------------------------------------------------------
\* A library of two novels, left by earlier sessions, read and analysed
\* ------------------------------------------------------------------------

\* initApp with two stored novels and no lastNovelId: the library view.
LibraryInit ==
    /\ viewState = "library"
    /\ appState = [currentNovelId |-> 0,
                   fullContent |-> <<>>,
                   chunks |-> <<>>,
                   currentChunkIndex |-> 0,
                   settings |-> DefaultSettings,
                   globalGraph |-> EmptyGraph]
    /\ isAutoAnalyzing = FALSE
    /\ autoAnalysisRef = FALSE
    /\ runs = [r \in RunIds |-> IdleRun]
    /\ manualCalls = [m \in ManualIds |-> IdleManual]
    /\ store = << NewNovel(Headerless,
                           processFileContent(Headerless,
                                              DefaultTargetChunkSize),
                           DefaultSettings),
                  NewNovel(Chaptered,
                           processFileContent(Chaptered,
                                              DefaultTargetChunkSize),
                           DefaultSettings) >>
    /\ callsIssued = 0
    /\ PanelIdle
    /\ UnitIdle

LibraryNext ==
    \/ \E id \in 1..MaxNovels : handleOpenNovel(id)
    \/ handleBackToLibrary
    \/ \E index \in 0..MaxLen : selectChunk(index)
    \/ startAutoAnalysis
    \/ stopAutoAnalysis
    \/ \E r \in RunIds : CompleteCall(r)
    \/ \E r \in RunIds : FailCall(r)
    \/ \E r \in RunIds : PauseEnds(r)
    \/ handleAnalyze
    \/ \E m \in ManualIds : CompleteManual(m)
    \/ \E m \in ManualIds : FailManual(m)

LibrarySpec == LibraryInit /\ [][LibraryNext]_vars

\* ------------------------------------------------------------------------
\* The segmenter applied to every bounded input
\* ------------------------------------------------------------------------

Texts == UNION {[1..n -> Alphabet] : n \in 0..MaxLen}

SegInit ==
    /\ segText \in Texts
    /\ segTarget \in 1..MaxTarget
    /\ segDone = FALSE
    /\ segChunks = <<>>
    /\ segCursor = 0
    /\ AppInit
    /\ GraphIdle
    /\ RetryIdle

CallProcessFileContent ==
    /\ ~segDone
    /\ segDone' = TRUE
    /\ segChunks' = processFileContent(segText, segTarget)
    /\ UNCHANGED <<segText, segTarget, segCursor, appVars, graphVars,
                   retryVars, serviceVars,
                   panelVars>>

SegNext == CallProcessFileContent

SegSpec == SegInit /\ [][SegNext]_vars

\* ------------------------------------------------------------------------
\* processFileContent handed a size that is not positive, pass by pass
\* ------------------------------------------------------------------------

\* processFileContent tests nothing about targetChunkSize, so such a call
\* runs the same statements.  Every text but the empty one is longer than
\* the size, and so is its first section: the call reaches splitByLength
\* either in the fallback or for the first section, with nothing pending.
NonPositiveSizes == (0 - MaxDeficit)..0

\* The arguments of the first splitByLength call processFileContent makes.
FirstSplit(content, targetChunkSize) ==
    LET matches == MatchAll(content)
        splitIndices == SplitIndices(content, matches)
    IN  IF Len(matches) < 2 /\ Len(content) > targetChunkSize
        THEN [text |-> content, absoluteStartOffset |-> 0,
              baseTitlePrefix |-> SegmentStr]
        ELSE [text |-> Slice(content, splitIndices[1].index,
                             splitIndices[2].index),
              absoluteStartOffset |-> splitIndices[1].index,
              baseTitlePrefix |-> splitIndices[1].title]

SizeInit ==
    /\ segText \in Texts
    /\ segTarget \in NonPositiveSizes
    /\ segDone = FALSE
    /\ segChunks = <<>>
    /\ segCursor = 0
    /\ AppInit
    /\ GraphIdle
    /\ RetryIdle

\* One pass of the while loop of splitByLength: a piece is pushed and the
\* cursor moves to its end.
SplitPass ==
    LET call == FirstSplit(segText, segTarget)
        end == PieceEnd(call.text, segTarget, segCursor)
    IN  /\ ~segDone
        /\ Len(segText) > 0
        /\ segCursor < Len(call.text)
        /\ Len(segChunks) < MaxPasses
        /\ segChunks' = Append(segChunks,
               [id |-> 0,
                title |-> PieceTitle(call.text, segTarget, 0,
                                     call.baseTitlePrefix, Len(segChunks)),
                content |-> Trim(Slice(call.text, segCursor, end)),
                startIndex |-> call.absoluteStartOffset + segCursor,
                endIndex |-> call.absoluteStartOffset + end,
                analysis |-> NoAnalysis])
        /\ segCursor' = end
        /\ UNCHANGED <<segText, segTarget, segDone, appVars, graphVars,
                       retryVars, serviceVars,
                   panelVars>>

\* The empty text: splitByLength returns at once, or the grouping loop
\* finds one empty section, and processFileContent returns no chunk.
ReturnEmpty ==
    /\ ~segDone
    /\ Len(segText) = 0
    /\ segDone' = TRUE
    /\ segChunks' = processFileContent(segText, segTarget)
    /\ UNCHANGED <<segText, segTarget, segCursor, appVars, graphVars,
                   retryVars, serviceVars,
                   panelVars>>

SizeNext == SplitPass \/ ReturnEmpty

SizeSpec == SizeInit /\ [][SizeNext]_vars

\* ------------------------------------------------------------------------
\* The graph merger applied to batch after batch, from the empty graph
\* ------------------------------------------------------------------------

\* The names a relation may carry: one that needs no trimming, one that
\* does, and one that is empty once trimmed.
EndpointNames == {<<"A">>, <<" ", "B">>, <<" ">>}

RelationLabels == {<<"x">>, <<"y">>}

Relationships ==
    [source : EndpointNames, target : EndpointNames, relation : RelationLabels]

\* The relationship lists of at most n relations.
Batches(n) == UNION {[1..k -> Relationships] : k \in 0..n}

\* updatedGraph = mergeRelationshipsIntoGraph(prevState.globalGraph, ...):
\* the graph built so far is handed over with the next list.  The lists
\* hold MaxRelations relations in all; the last list may be handed over
\* once more beyond that.
CallMerge(newRelations) ==
    /\ \/ Len(mergeLog) + Len(newRelations) <= MaxRelations
       \/ Len(mergeLog) <= MaxRelations /\ newRelations = mergeBatch
    /\ mergeGraph' = mergeRelationshipsIntoGraph(mergeGraph, newRelations)
    /\ mergeArg' = currentGraphAfter(mergeGraph, newRelations)
    /\ mergeBatch' = newRelations
    /\ mergeLog' = mergeLog \o newRelations
    /\ UNCHANGED <<appVars, segVars, retryVars, serviceVars,
                   panelVars>>

GraphInit == AppInit /\ UnitIdle

GraphNext ==
    \E newRelations \in Batches(MaxRelations - Len(mergeLog)) \cup {mergeBatch} :
        CallMerge(newRelations)

GraphSpec == GraphInit /\ [][GraphNext]_vars

\* ------------------------------------------------------------------------
\* retryWithBackoff around one request to the model provider
\* ------------------------------------------------------------------------

\* The default of the retries parameter, which every caller uses.
DefaultRetries == 5

\* The default of the delay parameter, in ms, which every caller uses.
DefaultDelay == 2000

\* Error messages that hold one of the texts isRetriable looks for.
RetriableErrors ==
    {"xhr error", "network", "fetch failed", "500", "503", "overloaded",
     "error code: 6", "rpc failed"}

\* Error messages that hold none of them.
OtherErrors == {"401", "no response text"}

\* A test that takes every error for a transient one.
isRetriableAlways(error) == TRUE

isRetriable(error) == error \in RetriableErrors

\* The outermost call: fn() is called and awaited.
CallRetryWithBackoff ==
    /\ retryPc = "idle"
    /\ retryPc' = "attempting"
    /\ retries' = DefaultRetries
    /\ delay' = DefaultDelay
    /\ attempts' = 1
    /\ UNCHANGED <<waits, lastError, appVars, segVars, graphVars, serviceVars,
                   panelVars>>

\* fn() resolved: its value is returned through every level.
AttemptResolves ==
    /\ retryPc = "attempting"
    /\ retryPc' = "resolved"
    /\ UNCHANGED <<retries, delay, attempts, waits, lastError, appVars,
                   segVars, graphVars, serviceVars,
                   panelVars>>

\* fn() rejected: the catch block, up to the timeout or the throw.
AttemptRejects(error) ==
    /\ retryPc = "attempting"
    /\ lastError' = error
    /\ retryPc' = IF retries > 0 /\ isRetriable(error) THEN "waiting"
                  ELSE "rejected"
    /\ UNCHANGED <<retries, delay, attempts, waits, appVars, segVars,
                   graphVars, serviceVars,
                   panelVars>>

\* The timeout fired: the recursive call, which calls fn() again.
TimeoutFires ==
    /\ retryPc = "waiting"
    /\ waits' = Append(waits, delay)
    /\ retries' = retries - 1
    /\ delay' = delay * 2
    /\ attempts' = attempts + 1
    /\ retryPc' = "attempting"
    /\ UNCHANGED <<lastError, appVars, segVars, graphVars, serviceVars,
                   panelVars>>

\* retryWithBackoff returned a response with a text that JSON.parse
\* accepts: analyzeChunkText resolves.
ResponseParses ==
    /\ retryPc = "resolved"
    /\ analysisPc = "pending"
    /\ analysisPc' = "returned"
    /\ UNCHANGED <<appVars, segVars, graphVars, retryVars, panelVars>>

\* It returned a response without a text, or with one that JSON.parse
\* throws on: the catch blocks around the call pass the error on.
ResponseMalformed ==
    /\ retryPc = "resolved"
    /\ analysisPc = "pending"
    /\ analysisPc' = "thrown"
    /\ UNCHANGED <<appVars, segVars, graphVars, retryVars, panelVars>>

\* retryWithBackoff threw: the catch blocks around the call pass it on.
ErrorPropagates ==
    /\ retryPc = "rejected"
    /\ analysisPc = "pending"
    /\ analysisPc' = "thrown"
    /\ UNCHANGED <<appVars, segVars, graphVars, retryVars, panelVars>>

RetryInit == AppInit /\ UnitIdle

RetryNext ==
    \/ CallRetryWithBackoff
    \/ AttemptResolves
    \/ \E error \in RetriableErrors \cup OtherErrors : AttemptRejects(error)
    \/ TimeoutFires
    \/ ResponseParses
    \/ ResponseMalformed
    \/ ErrorPropagates

RetrySpec == RetryInit /\ [][RetryNext]_vars

\* ------------------------------------------------------------------------
\* Claims about processFileContent
\* ------------------------------------------------------------------------

\* The chunks whose span [startIndex, endIndex) holds offset p.
Covering(chunks, p) ==
    {i \in 1..Len(chunks) : chunks[i].startIndex <= p /\ p < chunks[i].endIndex}

\* C1: the spans of the returned chunks lie in [0, text.length) and no offset
\* is in two of them; an offset that is in none holds whitespace, so every
\* non-whitespace character is in exactly one chunk; and each chunk's
\* content is the trimmed slice of its span.
C1_Coverage ==
    segDone =>
        /\ \A i \in 1..Len(segChunks) :
              /\ 0 <= segChunks[i].startIndex
              /\ segChunks[i].endIndex <= Len(segText)
              /\ segChunks[i].content =
                     Trim(Slice(segText, segChunks[i].startIndex,
                                segChunks[i].endIndex))
        /\ \A p \in 0..(Len(segText) - 1) :
              /\ Cardinality(Covering(segChunks, p)) <= 1
              /\ Covering(segChunks, p) = {} => IsSpace(segText[p + 1])

\* A text with two headers was cut into several chunks, one of which had
\* whitespace trimmed off its content.
C1_Witness ==
    /\ segDone
    /\ Len(MatchAll(segText)) >= 2
    /\ Len(segChunks) >= 3
    /\ \E i \in 1..Len(segChunks) :
          /\ segChunks[i].content # <<>>
          /\ Len(segChunks[i].content)
                 < segChunks[i].endIndex - segChunks[i].startIndex

\* C2: no returned chunk is longer than targetChunkSize, by its span or by
\* its content.
C2_SizeBound ==
    segDone =>
        \A i \in 1..Len(segChunks) :
            /\ segChunks[i].endIndex - segChunks[i].startIndex <= segTarget
            /\ Len(segChunks[i].content) <= segTarget

\* A piece was ended early at a newline in the last fifth of the budget,
\* and the next piece follows it.
C2_Witness ==
    /\ segDone
    /\ \E i \in 1..(Len(segChunks) - 1) :
          LET span == segChunks[i].endIndex - segChunks[i].startIndex
          IN  /\ span < segTarget
              /\ 5 * span > 4 * segTarget
              /\ segText[segChunks[i].endIndex + 1] = NL
              /\ segChunks[i + 1].startIndex = segChunks[i].endIndex
              /\ segChunks[i + 1].endIndex - segChunks[i].startIndex
                     > segTarget

\* C3: the ids are 0..N-1 in emission order, every span is non-empty, and
\* each chunk ends at or before the start of the next.
C3_DenseOrdered ==
    segDone =>
        /\ \A i \in 1..Len(segChunks) :
              /\ segChunks[i].id = i - 1
              /\ segChunks[i].startIndex < segChunks[i].endIndex
        /\ \A i \in 1..(Len(segChunks) - 1) :
              segChunks[i].endIndex <= segChunks[i + 1].startIndex

\* A text with headers whose sections were emitted by several addChunks
\* calls, one of them split into parts.
C3_Witness ==
    /\ segDone
    /\ Len(MatchAll(segText)) >= 2
    /\ Len(segChunks) >= 4
    /\ \E i \in 1..Len(segChunks) : segChunks[i].title = <<"X", "Z">>
    /\ \E i \in 1..Len(segChunks) :
          segChunks[i].title = <<"X", "Z", " ">> \o PartSuffix(2)

\* The call took the fallback branch: fewer than two headers in a text
\* longer than the target size.
FallbackCase(text, target) == Len(MatchAll(text)) < 2 /\ Len(text) > target

\* The spans of the chunks tile the offsets from..to without a gap.
Tiles(chunks, from, to) ==
    /\ Len(chunks) >= 1
    /\ chunks[1].startIndex = from
    /\ chunks[Len(chunks)].endIndex = to
    /\ \A k \in 1..(Len(chunks) - 1) :
           chunks[k + 1].startIndex = chunks[k].endIndex

\* A span cut by length alone: it runs to the end of the text, or it is as
\* long as the target (no newline in its last fifth, or one right at its
\* end), or it stops on the last newline within the target, which lies in
\* the last fifth of it.
LengthCut(text, target, from, to) ==
    \/ to = Len(text) /\ to - from <= target
    \/ /\ to - from = target
       /\ to < Len(text)
       /\ \/ text[to + 1] = NL
          \/ \A p \in from..(to - 1) :
                 text[p + 1] = NL => 5 * (p - from) <= 4 * target
    \/ /\ to - from < target
       /\ from + target < Len(text)
       /\ text[to + 1] = NL
       /\ 5 * (to - from) > 4 * target
       /\ \A p \in (to + 1)..(from + target) : text[p + 1] # NL

\* C22: a text with fewer than 2 header matches that is longer than
\* targetSize is split by length alone, headers ignored: the chunks tile
\* the whole text, each is a length cut, and they are titled 'Segment 1',
\* 'Segment 2', ... in order.
C22_Fallback ==
    segDone /\ FallbackCase(segText, segTarget) =>
        /\ Tiles(segChunks, 0, Len(segText))
        /\ \A k \in 1..Len(segChunks) :
               /\ LengthCut(segText, segTarget, segChunks[k].startIndex,
                            segChunks[k].endIndex)
               /\ segChunks[k].title = SegmentStr \o <<" ", ToString(k)>>
               /\ segChunks[k].id = k - 1
               /\ segChunks[k].content =
                      Trim(Slice(segText, segChunks[k].startIndex,
                                 segChunks[k].endIndex))

\* A text with one header, not at its start, was cut into segments none
\* of which starts at the header.
C22_Witness ==
    /\ segDone
    /\ Len(MatchAll(segText)) = 1
    /\ MatchAll(segText)[1].index > 0
    /\ Len(segText) > segTarget
    /\ Len(segChunks) >= 2
    /\ \A k \in 1..Len(segChunks) :
           /\ segChunks[k].startIndex # MatchAll(segText)[1].index
           /\ StartsWith(segChunks[k].title, SegmentStr)

\* The sections of a text that is cut at its headers, as offsets and titles.
Sections(text) == SplitIndices(text, MatchAll(text))

SectionLength(text, i) == Sections(text)[i + 1].index - Sections(text)[i].index

\* The positions of the chunks that lie inside section i.
Inside(chunks, text, i) ==
    {k \in 1..Len(chunks) :
        /\ Sections(text)[i].index <= chunks[k].startIndex
        /\ chunks[k].endIndex <= Sections(text)[i + 1].index}

\* C23: a section longer than targetSize is emitted alone, as consecutive
\* parts titled '<title> (Part 1)', '<title> (Part 2)', ...: what lies
\* before it is emitted before it, no chunk reaches across either of its
\* ends, and the next section starts a new chunk.
C23_OversizedAlone ==
    segDone /\ ~FallbackCase(segText, segTarget) =>
        \A i \in 1..(Len(Sections(segText)) - 1) :
            SectionLength(segText, i) > segTarget =>
                LET from == Sections(segText)[i].index
                    to == Sections(segText)[i + 1].index
                    parts == Inside(segChunks, segText, i)
                IN  /\ Cardinality(parts) >= 2
                    /\ \A k \in 1..Len(segChunks) :
                           k \notin parts =>
                               \/ segChunks[k].endIndex <= from
                               \/ segChunks[k].startIndex >= to
                    /\ \A k \in parts :
                           /\ segChunks[k].title =
                                  Sections(segText)[i].title \o <<" ">>
                                      \o PartSuffix(k - SetMin(parts) + 1)
                           /\ k = SetMin(parts) =>
                                  segChunks[k].startIndex = from
                           /\ k # SetMin(parts) =>
                                  /\ k - 1 \in parts
                                  /\ segChunks[k].startIndex =
                                         segChunks[k - 1].endIndex
                           /\ k = SetMax(parts) =>
                                  segChunks[k].endIndex = to
                    /\ from > 0 =>
                           /\ SetMin(parts) > 1
                           /\ segChunks[SetMin(parts) - 1].endIndex = from
                    /\ to < Len(segText) =>
                           /\ SetMax(parts) < Len(segChunks)
                           /\ segChunks[SetMax(parts) + 1].startIndex = to

\* An oversized section lay between a pending group and a further section:
\* a chunk ends where it starts, its parts follow, a chunk starts where it
\* ends.
C23_Witness ==
    /\ segDone
    /\ ~FallbackCase(segText, segTarget)
    /\ \E i \in 2..(Len(Sections(segText)) - 2) :
           /\ SectionLength(segText, i) > segTarget
           /\ SectionLength(segText, i - 1) <= segTarget
           /\ \E k \in 2..(Len(segChunks) - 1) :
                  /\ segChunks[k].startIndex = Sections(segText)[i].index
                  /\ segChunks[k - 1].endIndex = Sections(segText)[i].index
                  /\ segChunks[k].title =
                         Sections(segText)[i].title \o <<" ">> \o PartSuffix(1)

\* C28: when no section of a text that is not blank exceeds targetSize the
\* grouping is greedy: every chunk is a run of whole sections that fits the target, it is closed
\* before a section only if that section would not fit any more, and it
\* carries the title of its first section without a part suffix.
C28_Greedy ==
    /\ segDone
    /\ ~FallbackCase(segText, segTarget)
    /\ \A i \in 1..(Len(Sections(segText)) - 1) :
           SectionLength(segText, i) <= segTarget
    /\ Trim(segText) # <<>>
    => /\ Tiles(segChunks, 0, Len(segText))
       /\ \A k \in 1..Len(segChunks) :
              \E a, b \in 1..(Len(Sections(segText)) - 1) :
                  /\ a <= b
                  /\ segChunks[k].startIndex = Sections(segText)[a].index
                  /\ segChunks[k].endIndex = Sections(segText)[b + 1].index
                  /\ segChunks[k].endIndex - segChunks[k].startIndex
                         <= segTarget
                  /\ segChunks[k].title = Sections(segText)[a].title
                  /\ b + 1 < Len(Sections(segText)) =>
                         segChunks[k].endIndex - segChunks[k].startIndex
                             + SectionLength(segText, b + 1) > segTarget

\* Two sections were merged into the first chunk and the group was closed
\* before a third, which the second chunk holds.
C28_Witness ==
    /\ segDone
    /\ ~FallbackCase(segText, segTarget)
    /\ Len(Sections(segText)) >= 4
    /\ \A i \in 1..(Len(Sections(segText)) - 1) :
           SectionLength(segText, i) <= segTarget
    /\ Len(segChunks) >= 2
    /\ segChunks[1].endIndex = Sections(segText)[3].index
    /\ segChunks[1].title = Sections(segText)[1].title
    /\ segChunks[2].title = Sections(segText)[3].title

\* C24: processFileContent called with a targetSize that is not positive
\* fails fast, before it emits any chunk.
C24_FailFast == segTarget <= 0 => segChunks = <<>>

\* ------------------------------------------------------------------------
\* Claims about the auto-analysis loop
\* ------------------------------------------------------------------------

\* The step in which run r issues its first call.
RunStarts(r) == runs[r].pc = "idle" /\ runs'[r].pc = "calling"

\* The step in which the call of run r resolves.
CallReturns(r) == runs[r].pc = "calling" /\ runs'[r].pc = "pausing"

\* The step in which run r goes on to its next chunk.
NextCall(r) == runs[r].pc = "pausing" /\ runs'[r].pc = "calling"

\* While a run awaits the call for a chunk after its first one, the chunk
\* before it carries the summary made from its own text, and that summary
\* is the prior context of the call.
C4_ChainInv ==
    \A r \in RunIds :
        runs[r].pc = "calling" /\ runs[r].i > runs[r].startIndex =>
            LET prev == runs[r].chunksToAnalyze[runs[r].i]
            IN  /\ prev.analysis.present
                /\ prev.analysis.summary = Summarize(prev.content)
                /\ runs[r].runningSummary = prev.analysis.summary

\* A resolved call attaches its result to the chunk of that id, which the
\* list holds whenever the run has a further chunk to go on to; the next
\* call of the run is for the next chunk, of a larger id, and is made only
\* from the pause that follows the attachment.
C4_ChainStep ==
    \A r \in RunIds :
        /\ CallReturns(r) =>
               /\ \A k \in 1..Len(appState.chunks) :
                      appState.chunks[k].id = RunChunk(runs[r]).id =>
                          /\ k <= Len(appState'.chunks)
                          /\ appState'.chunks[k].analysis.present
                          /\ appState'.chunks[k].analysis =
                                 RunChunk(runs'[r]).analysis
               /\ runs[r].i + 1 < Len(runs[r].chunksToAnalyze) =>
                      \E k \in 1..Len(appState.chunks) :
                          appState.chunks[k].id = RunChunk(runs[r]).id
        /\ NextCall(r) =>
               /\ runs'[r].i = runs[r].i + 1
               /\ runs'[r].chunksToAnalyze = runs[r].chunksToAnalyze
               /\ RunChunk(runs'[r]).id > RunChunk(runs[r]).id
        /\ runs[r].pc = "calling" /\ runs'[r].pc = "calling" =>
               runs'[r].i = runs[r].i

C5_NoCallWhenAllAnalyzed ==
    [][\A r \in RunIds :
          RunStarts(r) =>
              \E k \in 1..Len(appState.chunks) :
                  ~appState.chunks[k].analysis.present]_vars

\* Exactly the first n chunks of the list have an analysis.
PrefixAnalyzed(chunks, n) ==
    \A j \in 1..Len(chunks) : chunks[j].analysis.present <=> j <= n

\* C6: on a list whose chunks 0..k-1 are analyzed and k..N-1 are not
\* (0 <= k < N) a fresh run issues its first call for chunk k, with the
\* summary of chunk k-1 as prior context, the empty string when k = 0.
C6_ResumePoint ==
    [][\A r \in RunIds :
          \A k \in 0..(Len(appState.chunks) - 1) :
              RunStarts(r) /\ PrefixAnalyzed(appState.chunks, k) =>
                  /\ runs'[r].i = k
                  /\ RunChunk(runs'[r]) = appState.chunks[k + 1]
                  /\ runs'[r].runningSummary =
                         IF k = 0 THEN <<>>
                         ELSE appState.chunks[k].analysis.summary]_vars

\* A run resumed behind an analyzed chunk awaits its first call.
C6_Witness ==
    \E r \in RunIds :
        /\ runs[r].pc = "calling"
        /\ runs[r].i = runs[r].startIndex
        /\ runs[r].i >= 1
        /\ PrefixAnalyzed(runs[r].chunksToAnalyze, runs[r].i)
        /\ runs[r].runningSummary # <<>>

\* C8: at any time at most one auto-analysis loop is alive and at most one
\* call issued by auto-analysis is in flight.
C8_SingleLoop ==
    /\ Cardinality({r \in RunIds : Active(runs[r])}) <= 1
    /\ Cardinality({r \in RunIds : runs[r].pc = "calling"}) <= 1

\* C26: whenever the controller shows Idle (running indicator false,
\* cancellation flag cleared) no run loop is still alive: a run has ended
\* by the time the controller is back in Idle.
C26_IdleMeansEnded ==
    ~isAutoAnalyzing /\ ~autoAnalysisRef =>
        \A r \in RunIds : ~Active(runs[r])

\* What the store holds for the novel in memory is what memory holds: the
\* chunk list, the graph, and the number of analyzed chunks.
StoreMatches(state, st) ==
    LET id == state.currentNovelId
    IN  /\ st[id].data.chunks = state.chunks
        /\ st[id].data.globalGraph = state.globalGraph
        /\ st[id].metadata.analyzedChunkCount = AnalyzedCount(state.chunks)
        /\ st[id].metadata.chunkCount = Len(state.chunks)

\* A resolved call of a run leaves in the store the list with the new
\* analysis, the merged graph and the count of analyzed chunks.
C27_WriteStep ==
    \A r \in RunIds :
        CallReturns(r) /\ Stored(store, appState.currentNovelId) =>
            /\ StoreMatches(appState', store')
            /\ \A k \in 1..Len(appState.chunks) :
                   appState.chunks[k].id = RunChunk(runs[r]).id =>
                       store'[appState.currentNovelId].data.chunks[k].analysis
                           = RunChunk(runs'[r]).analysis
            /\ \A id \in 1..Len(store) :
                   id # appState.currentNovelId => store'[id] = store[id]

\* Once no run is alive the store holds what memory holds.
C27_StoreInv ==
    /\ \A r \in RunIds : ~Active(runs[r])
    /\ Stored(store, appState.currentNovelId)
    => StoreMatches(appState, store)

Attached(r) ==
    /\ \A k \in 1..Len(appState.chunks) :
           appState.chunks[k].id = RunChunk(runs[r]).id =>
               appState'.chunks[k].analysis = RunChunk(runs'[r]).analysis
    /\ Stored(store, appState.currentNovelId) =>
           /\ store'[appState.currentNovelId].data.chunks = appState'.chunks
           /\ store'[appState.currentNovelId].data.globalGraph =
                  appState'.globalGraph

\* Every analysis the store holds is still there after the step.
StoredAnalysesKept ==
    \A id \in 1..Len(store) :
        \A k \in 1..Len(store[id].data.chunks) :
            store[id].data.chunks[k].analysis.present =>
                /\ k <= Len(store'[id].data.chunks)
                /\ store'[id].data.chunks[k] = store[id].data.chunks[k]

\* C9: once the user has asked a run to stop, the run starts no call for a
\* later chunk; the call in flight still resolves and its result is
\* attached and stored; the stop itself removes no stored analysis.
C9_Cancellation ==
    [][\A r \in RunIds :
          /\ runs[r].stopRequested => ~NextCall(r)
          /\ runs[r].stopRequested /\ CallReturns(r) => Attached(r)
          /\ ~runs[r].stopRequested /\ runs'[r].stopRequested =>
                 StoredAnalysesKept]_vars

\* C10: the result of an auto-analysis call that was in flight when the
\* list was resegmented changes neither the chunk list nor the graph.
C10_NoStaleResult ==
    [][\A r \in RunIds :
          runs[r].resegmented /\ CallReturns(r) =>
              /\ appState'.chunks = appState.chunks
              /\ appState'.globalGraph = appState.globalGraph]_vars

\* The step in which the call of run r ends without a result.
CallFails(r) ==
    /\ runs[r].pc = "calling"
    /\ ~CallReturns(r)
    /\ runs'[r].pc # "calling" \/ runs'[r].i # runs[r].i

\* C11: when the call for chunk i fails for good the run is over: it makes
\* no further call, chunk i receives nothing, and the chunk list, the graph
\* and the stored data are what they were before the failure.
C11_FailureStops ==
    [][\A r \in RunIds :
          CallFails(r) =>
              /\ runs'[r] = IdleRun
              /\ callsIssued' = callsIssued
              /\ ~isAutoAnalyzing'
              /\ ~autoAnalysisRef'
              /\ appState' = appState
              /\ store' = store]_vars

\* Two calls were made and no run is left; the first chunk carries its
\* analysis in the list and in the store, the second carries none.
C11_Witness ==
    /\ viewState = "reader"
    /\ callsIssued = 2
    /\ \A r \in RunIds : ~Active(runs[r])
    /\ ~isAutoAnalyzing
    /\ Len(appState.chunks) >= 2
    /\ appState.chunks[1].analysis.present
    /\ ~appState.chunks[2].analysis.present
    /\ Stored(store, appState.currentNovelId)
    /\ store[appState.currentNovelId].data.chunks = appState.chunks

\* ------------------------------------------------------------------------
\* Claims about resegmentation
\* ------------------------------------------------------------------------

\* The step in which the settings of the open novel are saved with
\* another target chunk size.
SettingsStep ==
    /\ viewState = "reader"
    /\ viewState' = "reader"
    /\ appState'.settings.targetChunkSize # appState.settings.targetChunkSize

\* The number of chunks in front of the first one without an analysis.
Frontier(chunks) ==
    IF \A k \in 1..Len(chunks) : chunks[k].analysis.present
    THEN Len(chunks)
    ELSE SetMin({k \in 1..Len(chunks) : ~chunks[k].analysis.present}) - 1

\* C12: changing the target chunk size leaves every chunk in front of the
\* first unanalyzed one as it was (id, title, content, offsets, analysis)
\* and where it was; a list without an unanalyzed chunk, the empty list
\* included, is left as it was.
C12_ResizePreserves ==
    [][SettingsStep =>
          /\ Len(appState'.chunks) >= Frontier(appState.chunks)
          /\ \A k \in 1..Frontier(appState.chunks) :
                 appState'.chunks[k] = appState.chunks[k]
          /\ Frontier(appState.chunks) = Len(appState.chunks) =>
                 appState'.chunks = appState.chunks]_vars

\* The size is no longer the one the text was imported with, and the first
\* chunk still is the analyzed chunk that the import size cut.
C12_Witness ==
    /\ viewState = "reader"
    /\ appState.settings.targetChunkSize > DefaultTargetChunkSize
    /\ Len(appState.chunks) >= 1
    /\ appState.chunks[1].analysis.present
    /\ appState.chunks[1].analysis.summary =
           Summarize(appState.chunks[1].content)
    /\ appState.chunks[1].endIndex - appState.chunks[1].startIndex
           = DefaultTargetChunkSize
    /\ Len(appState.fullContent) > DefaultTargetChunkSize

\* The ids are 0..N-1 in order, and the spans are non-empty, inside a text
\* of that length, in order and not overlapping.
DenseOrdered(chunks, length) ==
    /\ \A k \in 1..Len(chunks) :
           /\ chunks[k].id = k - 1
           /\ 0 <= chunks[k].startIndex
           /\ chunks[k].startIndex < chunks[k].endIndex
           /\ chunks[k].endIndex <= length
    /\ \A k \in 1..(Len(chunks) - 1) :
           chunks[k].endIndex <= chunks[k + 1].startIndex

\* The list new is the first n chunks of old followed by the segmentation
\* of the text from the end of old[n] on, renumbered behind old[n] and
\* with offsets counted from the start of the text.
TailResegmented(old, new, n, text, size) ==
    LET cut == IF n > 0 THEN old[n].endIndex ELSE 0
        firstId == IF n > 0 THEN old[n].id + 1 ELSE 0
        raw == processFileContent(Slice(text, cut, Len(text)), size)
    IN  /\ Len(new) = n + Len(raw)
        /\ \A j \in 1..Len(raw) :
               /\ new[n + j].id = firstId + j - 1
               /\ new[n + j].startIndex = raw[j].startIndex + cut
               /\ new[n + j].endIndex = raw[j].endIndex + cut
               /\ new[n + j].title = raw[j].title
               /\ new[n + j].content = raw[j].content
               /\ new[n + j].content =
                      Trim(Slice(text, new[n + j].startIndex,
                                 new[n + j].endIndex))
               /\ ~new[n + j].analysis.present

\* C13: after a resegmentation the chunks behind the preserved ones are
\* the segmentation, with the new size, of the full text from the last
\* preserved chunk's endIndex (0 if none), numbered on from the last
\* preserved id and with offsets shifted by that cut point; the whole list
\* has the ids 0..N-1 and ordered, non-overlapping spans inside the text.
C13_TailResegmented ==
    [][SettingsStep /\ Frontier(appState.chunks) < Len(appState.chunks) =>
          /\ TailResegmented(appState.chunks, appState'.chunks,
                             Frontier(appState.chunks), appState.fullContent,
                             appState'.settings.targetChunkSize)
          /\ DenseOrdered(appState'.chunks, Len(appState.fullContent))]_vars

\* Behind an analyzed chunk cut with the import size lies an unanalyzed
\* chunk cut with a larger size, numbered and placed behind it.
C13_Witness ==
    /\ viewState = "reader"
    /\ appState.settings.targetChunkSize > DefaultTargetChunkSize
    /\ Len(appState.chunks) >= 2
    /\ appState.chunks[1].analysis.present
    /\ ~appState.chunks[2].analysis.present
    /\ appState.chunks[2].id = appState.chunks[1].id + 1
    /\ appState.chunks[2].startIndex >= appState.chunks[1].endIndex
    /\ appState.chunks[2].startIndex > 0
    /\ appState.chunks[2].content =
           Trim(Slice(appState.fullContent, appState.chunks[2].startIndex,
                      appState.chunks[2].endIndex))

\* ------------------------------------------------------------------------
\* Claims about mergeRelationshipsIntoGraph
\* ------------------------------------------------------------------------

\* A relation that is not skipped: both ends are non-empty once trimmed.
NonSkipped(rel) == Trim(rel.source) # <<>> /\ Trim(rel.target) # <<>>

\* The unordered pair of ids a relation is about.
PairOf(rel) == {Trim(rel.source), Trim(rel.target)}

\* The unordered pair of ids a link joins.
LinkPair(link) == {link.source, link.target}

\* The positions of the non-skipped relations of a list that are about a pair.
About(relations, pair) ==
    {k \in 1..Len(relations) :
        NonSkipped(relations[k]) /\ PairOf(relations[k]) = pair}

\* The link that the first non-skipped relation about a pair asks for.
FirstLink(relations, pair) ==
    LET rel == relations[SetMin(About(relations, pair))]
    IN  [source |-> Trim(rel.source), target |-> Trim(rel.target),
         label |-> rel.relation]

\* A step in which mergeRelationshipsIntoGraph was called.
MergeCalled == graphVars' # graphVars

\* No pair has two links; every link is the one its pair's first
\* non-skipped relation asked for; every such pair has its link.
C14_LinksInv ==
    /\ \A i, j \in 1..Len(mergeGraph.links) :
           LinkPair(mergeGraph.links[i]) = LinkPair(mergeGraph.links[j])
               => i = j
    /\ \A i \in 1..Len(mergeGraph.links) :
           /\ About(mergeLog, LinkPair(mergeGraph.links[i])) # {}
           /\ mergeGraph.links[i] =
                  FirstLink(mergeLog, LinkPair(mergeGraph.links[i]))
    /\ \A k \in 1..Len(mergeLog) :
           NonSkipped(mergeLog[k]) =>
               \E i \in 1..Len(mergeGraph.links) :
                   LinkPair(mergeGraph.links[i]) = PairOf(mergeLog[k])

\* A merge keeps the links there are, in their order, and adds a link only
\* for a pair that had none.
C14_LinksStep ==
    MergeCalled =>
        /\ Len(mergeGraph'.links) >= Len(mergeGraph.links)
        /\ \A i \in 1..Len(mergeGraph.links) :
               mergeGraph'.links[i] = mergeGraph.links[i]
        /\ \A i \in (Len(mergeGraph.links) + 1)..Len(mergeGraph'.links) :
               About(mergeLog, LinkPair(mergeGraph'.links[i])) = {}

\* C14: after any sequence of merges from the empty graph there is at most
\* one link per unordered pair {source, target}, with the direction and
\* the label of the first non-skipped relation seen for the pair; a later
\* relation between the pair, in either direction and with any label, adds
\* no link and changes no label.
C14_OneLinkPerPair == []C14_LinksInv /\ [][C14_LinksStep]_vars

\* A relation from one id to another was followed by one back, with
\* another label: the graph has the single link of the first.
C14_Witness ==
    /\ Len(mergeGraph.links) = 1
    /\ \E j, k \in 1..Len(mergeLog) :
           /\ j < k
           /\ NonSkipped(mergeLog[j])
           /\ Trim(mergeLog[j].source) # Trim(mergeLog[j].target)
           /\ Trim(mergeLog[k].source) = Trim(mergeLog[j].target)
           /\ Trim(mergeLog[k].target) = Trim(mergeLog[j].source)
           /\ mergeLog[k].relation # mergeLog[j].relation
           /\ mergeGraph.links[1].source = Trim(mergeLog[j].source)
           /\ mergeGraph.links[1].label = mergeLog[j].relation

\* The ids that the non-skipped relations of a list name.
NamedIds(relations) ==
    UNION {PairOf(relations[k]) :
              k \in {j \in 1..Len(relations) : NonSkipped(relations[j])}}

\* The node ids are the ids named by non-skipped relations, once each.
C15_NodesInv ==
    /\ {mergeGraph.nodes[k].id : k \in 1..Len(mergeGraph.nodes)}
           = NamedIds(mergeLog)
    /\ \A i, j \in 1..Len(mergeGraph.nodes) :
           mergeGraph.nodes[i].id = mergeGraph.nodes[j].id => i = j

\* A merge of relations that are all skipped returns the graph it was given.
C15_SkipStep ==
    MergeCalled /\ NamedIds(mergeBatch') = {} => mergeGraph' = mergeGraph

\* C15: after any sequence of merges from the empty graph the node ids are
\* exactly the distinct trimmed sources and targets of the relations whose
\* trimmed source and target are both non-empty, one node per id; a
\* relation with an empty trimmed end adds no node, no link and no weight,
\* not even for its other end.
C15_NodeSet == []C15_NodesInv /\ [][C15_SkipStep]_vars

\* The graph has nodes, and a relation with one empty end was merged whose
\* other end is no node.
C15_Witness ==
    /\ Len(mergeGraph.nodes) >= 1
    /\ \E k \in 1..Len(mergeLog) :
           /\ Trim(mergeLog[k].target) = <<>>
           /\ Trim(mergeLog[k].source) # <<>>
           /\ Trim(mergeLog[k].source) # mergeLog[k].source
           /\ ~HasNode(mergeGraph.nodes, Trim(mergeLog[k].source))

\* How often an id is the source, and how often the target, of a
\* non-skipped relation of a list.
Occurrences(relations, id) ==
    Cardinality({k \in 1..Len(relations) :
                    NonSkipped(relations[k]) /\ Trim(relations[k].source) = id})
    + Cardinality({k \in 1..Len(relations) :
                    NonSkipped(relations[k]) /\ Trim(relations[k].target) = id})

\* C16: merged from the empty graph, a node's value is the number of times
\* its id occurs as source or as target among the non-skipped relations,
\* whether or not the relation added a link; so a relation and its
\* reverse give both ends the value 2 and the one link of the first.
C16_Weights ==
    \A k \in 1..Len(mergeGraph.nodes) :
        mergeGraph.nodes[k].value =
            Occurrences(mergeLog, mergeGraph.nodes[k].id)

\* The example: a relation and its reverse under another label, merged in
\* one call; both nodes have the value 2, the link is the first one's.
C16_Witness ==
    /\ Len(mergeLog) = 2
    /\ mergeBatch = mergeLog
    /\ Trim(mergeLog[1].source) # Trim(mergeLog[1].target)
    /\ PairOf(mergeLog[1]) = PairOf(mergeLog[2])
    /\ Trim(mergeLog[2].source) = Trim(mergeLog[1].target)
    /\ mergeLog[2].relation # mergeLog[1].relation
    /\ Len(mergeGraph.nodes) = 2
    /\ mergeGraph.nodes[1].value = 2
    /\ mergeGraph.nodes[2].value = 2
    /\ Len(mergeGraph.links) = 1
    /\ mergeGraph.links[1].label = mergeLog[1].relation

\* The step in which the list of the last merge is merged again into the
\* graph that merge returned.
MergedAgain ==
    /\ MergeCalled
    /\ mergeBatch' = mergeBatch
    /\ mergeLog' = mergeLog \o mergeBatch

\* C17: merging a list B into merge(g, B) once more gives the links of
\* merge(g, B), the same in pairs, directions, labels and order, and a
\* greater value for every node that a non-skipped relation of B names.
C17_SecondMerge ==
    [][MergedAgain =>
          /\ mergeGraph'.links = mergeGraph.links
          /\ \A id \in NamedIds(mergeBatch) :
                 \E k \in 1..Len(mergeGraph.nodes) :
                     /\ mergeGraph.nodes[k].id = id
                     /\ mergeGraph'.nodes[k].id = id
                     /\ mergeGraph'.nodes[k].value > mergeGraph.nodes[k].value]_vars

\* A list that added a link to a graph was merged a second time: the log
\* ends with the list twice, and the graph has that one link.
C17_Witness ==
    /\ NamedIds(mergeBatch) # {}
    /\ Len(mergeLog) >= 2 * Len(mergeBatch)
    /\ SubSeq(mergeLog, Len(mergeLog) - 2 * Len(mergeBatch) + 1,
              Len(mergeLog) - Len(mergeBatch)) = mergeBatch
    /\ Len(mergeGraph.links) >= 1
    /\ \A k \in 1..Len(mergeGraph.nodes) :
           mergeGraph.nodes[k].id \in NamedIds(mergeBatch) =>
               mergeGraph.nodes[k].value >= 2

\* C18: a merge removes no node and no link, lowers no node's value and
\* changes neither the label nor the direction of a link; a merge of the
\* empty list returns a graph equal to the one it was given.
C18_Monotone ==
    [][MergeCalled =>
          /\ \A k \in 1..Len(mergeGraph.nodes) :
                 \E n \in 1..Len(mergeGraph'.nodes) :
                     /\ mergeGraph'.nodes[n].id = mergeGraph.nodes[k].id
                     /\ mergeGraph'.nodes[n].value >= mergeGraph.nodes[k].value
          /\ \A i \in 1..Len(mergeGraph.links) :
                 /\ \E n \in 1..Len(mergeGraph'.links) :
                        mergeGraph'.links[n] = mergeGraph.links[i]
                 /\ \A n \in 1..Len(mergeGraph'.links) :
                        LinkPair(mergeGraph'.links[n])
                            = LinkPair(mergeGraph.links[i])
                        => mergeGraph'.links[n] = mergeGraph.links[i]
          /\ mergeBatch' = <<>> => mergeGraph' = mergeGraph]_vars

\* The empty list was merged into a graph that has a link.
C18_Witness ==
    /\ mergeBatch = <<>>
    /\ mergeLog # <<>>
    /\ Len(mergeGraph.links) >= 1
    /\ Len(mergeGraph.nodes) >= 2

\* C19: mergeRelationshipsIntoGraph is pure: after the call the graph that
\* was passed in reads as it did before (its node list, every node's
\* value, its links), and only the returned graph shows the merge.
C19_Pure ==
    [][MergeCalled => mergeArg' = mergeGraph]_vars

\* ------------------------------------------------------------------------
\* Claims about retryWithBackoff
\* ------------------------------------------------------------------------

RECURSIVE PowerOfTwo(_)
PowerOfTwo(n) == IF n = 0 THEN 1 ELSE 2 * PowerOfTwo(n - 1)

\* At most 5 attempts were made, and the k-th wait was 2 s doubled k-1
\* times.
C20_AttemptsInv ==
    /\ attempts <= 5
    /\ Len(waits) = IF attempts = 0 THEN 0 ELSE attempts - 1
    /\ \A k \in 1..Len(waits) : waits[k] = 2000 * PowerOfTwo(k - 1)

\* A further attempt follows a transient failure only; once an attempt
\* succeeded or the failure was passed on, nothing more is attempted.
C20_AttemptsStep ==
    /\ attempts' > attempts /\ attempts > 0 =>
           retryPc = "waiting" /\ isRetriable(lastError)
    /\ retryPc \in {"resolved", "rejected"} => retryVars' = retryVars

\* C20: a call that keeps failing with transient errors is attempted at
\* most 5 times in all, with waits of 2 s, 4 s, 8 s, ... between the
\* attempts, and then the failure is passed on; a success on any attempt
\* is returned without a further attempt.
C20_BoundedRetry == []C20_AttemptsInv /\ [][C20_AttemptsStep]_vars

\* The step in which an attempt fails with an error that is not transient.
NonTransientFailure ==
    /\ retryPc = "attempting"
    /\ retryPc' \in {"waiting", "rejected"}
    /\ lastError' \in OtherErrors

\* The step in which the response of a successful attempt fails to parse.
MalformedResponse ==
    /\ retryPc = "resolved"
    /\ analysisPc = "pending"
    /\ analysisPc' = "thrown"

\* Such a failure ends the attempts: no wait is begun, and from then on
\* the only thing that happens is that the caller gets the error.
C21_FailureStep ==
    /\ NonTransientFailure =>
           /\ retryPc' = "rejected"
           /\ attempts' = attempts
           /\ waits' = waits
    /\ MalformedResponse => retryVars' = retryVars
    /\ retryPc = "rejected" =>
           /\ retryVars' = retryVars
           /\ analysisPc' = "thrown"
    /\ analysisPc = "thrown" => retryVars' = retryVars

\* A call that met no transient error made one attempt and waited never.
C21_FailureInv ==
    /\ retryPc = "rejected" /\ lastError \in OtherErrors =>
           Len(waits) = attempts - 1
    /\ analysisPc = "thrown" /\ waits = <<>> => attempts = 1

C29_AnalyzedPrefix ==
    \A i, j \in 1..Len(appState.chunks) :
        j < i /\ appState.chunks[i].analysis.present =>
            appState.chunks[j].analysis.present

\* C30: the result of a call made for one novel, arriving while another
\* novel is the current one, is attached to no chunk of that novel, merged
\* into no graph of it and stored under no id but its own.
C30_OwnDocumentOnly ==
    [][\A r \in RunIds :
          CallReturns(r) /\ runs[r].novelId # appState.currentNovelId =>
              /\ appState'.chunks = appState.chunks
              /\ appState'.globalGraph = appState.globalGraph
              /\ \A id \in 1..Len(store) :
                     id # runs[r].novelId => store'[id] = store[id]]_vars

\* The step in which generateChapterOutlines resolves or rejects.
OutlinesArrive == outlineCall.pending /\ ~outlineCall'.pending

\* C25: generating or regenerating the outlines of a chunk leaves the
\* global graph (nodes, weights, links) and every other chunk as they
\* were.
C25_OutlinesOnly ==
    [][OutlinesArrive =>
          /\ appState'.globalGraph = appState.globalGraph
          /\ Len(appState'.chunks) = Len(appState.chunks)
          /\ \A k \in 1..Len(appState.chunks) :
                 appState.chunks[k].id # outlineCall.chunkId =>
                     appState'.chunks[k] = appState.chunks[k]]_vars

\* The step in which a manual request reaches the analysis service.
ManualCallIssued ==
    \E m \in ManualIds : ~manualCalls[m].pending /\ manualCalls'[m].pending

\* C7: canAnalyze for the chunk at index i is true iff i = 0 or chunk i-1
\* has an analysis, and a manual request made while canAnalyze is false
\* makes no call to the analysis service.
C7_SequentialLock ==
    [][/\ viewState = "reader" /\ HasCurrentChunk(appState) =>
              (canAnalyze(appState) <=>
                  \/ appState.currentChunkIndex = 0
                  \/ appState.chunks[appState.currentChunkIndex]
                         .analysis.present)
       /\ ManualCallIssued => canAnalyze(appState)]_vars

====
